---- MODULE Spec2Model ----
(***************************************************************************)
(* Verification model of codetracer-python-recorder.                       *)
(*                                                                         *)
(* Three parts of the repository are modelled, each with its own           *)
(* specification over the shared variables:                                *)
(*   SpecTracer  - the pure-Python recorder, src/src/trace.py (Tracer and  *)
(*                 trace_program driven by sys.settrace events);           *)
(*   SpecSession - the session API of the Rust-backed recorder,            *)
(*                 codetracer_python_recorder/session.py, with the native  *)
(*                 backend (not part of the Python sources) modelled from  *)
(*                 the specification;                                      *)
(*   SpecLedger  - the ledger + FD mirror prototype,                       *)
(*                 design-docs/prototypes/io_capture_ledger_mirror_        *)
(*                 prototype.py.                                           *)
(* Strings that the code inspects character by character (paths, variable  *)
(* names, pipe bytes) are sequences of one-character strings.              *)
(***************************************************************************)
EXTENDS Integers, Sequences, FiniteSets, TLC

VARIABLES
    \* ---- trace.py: Tracer fields
    events,          \* Tracer.events
    paths,           \* Tracer.paths
    path_map,        \* Tracer.path_map
    var_map,         \* Tracer.var_map
    functions,       \* Tracer.functions
    types,           \* Tracer.types
    \* ---- trace.py: the interpreter running the traced program
    stack,           \* live frames, innermost last
    suspended,       \* generator frames suspended at a yield
    pc,              \* position of trace_program / __main__
    files,           \* files written by the __main__ block
    steps,           \* interpreter events delivered so far
    last,            \* the interpreter event handled last (history)
    out,             \* the text the original sys.stdout has received
    thread,          \* a second thread of the traced program that writes to stdout
    starters,        \* session.py: the threads inside start(), each with its position
    \* ---- session.py
    active_session,  \* session._active_session
    sessions,        \* the TraceSession handles start() has returned, oldest first
    api,             \* the API call made last, how it ended, the call before (history)
    ncalls,          \* API calls made so far
    \* ---- the native backend behind session.py
    tracing,         \* what is_tracing() of the backend answers
    policy,          \* the runtime policy
    gate,            \* activation gate: its path and whether it has opened
    scope,           \* the scope filter of the session
    bstream,         \* the event stream of the session's writer
    bmeta,           \* trace_metadata.json of the session
    durable,         \* how many events of bstream a flush has made durable
    frames,          \* frames of the monitored program, innermost last
    parked,          \* suspended generator contexts
    entered,         \* codes whose function-start fired in this session (history)
    ncallbacks,      \* monitoring callbacks delivered so far
    poisoned,        \* a fault under the policy 'disable' has quiesced the session
    \* ---- io_capture_ledger_mirror_prototype.py
    entries,         \* Ledger._entries
    next_seq,        \* the next value of Ledger._seq
    pipe,            \* bytes written to the pipe and not yet read
    writer,          \* the proxy write inside ProxyStdout._lock, after its push
    proxy_events,    \* run_trial's proxy_events (the bytes of each)
    native_payload,  \* native bytes in the order they entered the pipe
    mirror_payload,  \* the leftovers of the mirror's reads, concatenated
    nwrites,         \* writes begun so far
    piped,           \* seq of each proxy write whose bytes entered the pipe, in order (history)
    closed,          \* ProxyStdout.closed: the write end of the pipe is closed
    mirror,          \* FdMirror: total_bytes, matched_bytes, _done, whether run raised,
                     \* and the matched pairs of all its calls in order (history)
    \* ---- callers of the session API
    ctx,             \* the with-block of session.trace(...)
    cli,             \* __main__.main: its position, sys.argv and its result
    \* ---- trace_balance.py and scripts/check_trace_balance.py
    trace_file,      \* what is at the path given to check_trace_balance
    balance          \* the last result of summarize_trace_balance / main

tracerVars == <<events, paths, path_map, var_map, functions, types>>
interpVars == <<stack, suspended, pc, files, steps, last, out>>
sessionVars == <<active_session, sessions, api, ncalls>>
backendVars == <<tracing, policy, gate, scope, bstream, bmeta, durable,
                 frames, parked, entered, ncallbacks, poisoned>>
ledgerVars == <<entries, next_seq, pipe, writer, proxy_events, native_payload,
                mirror_payload, nwrites, piped, closed, mirror>>
callerVars == <<ctx, cli>>
threadVars == <<thread, starters>>
balanceVars == <<trace_file, balance>>
vars == <<events, paths, path_map, var_map, functions, types,
          stack, suspended, pc, files, steps, last, out, thread, starters,
          active_session, sessions, api, ncalls,
          tracing, policy, gate, scope, bstream, bmeta, durable,
          frames, parked, entered, ncallbacks, poisoned,
          entries, next_seq, pipe, writer, proxy_events, native_payload,
          mirror_payload, nwrites, piped, closed, mirror,
          ctx, cli, trace_file, balance>>

----------------------------------------------------------------------------
(* Bounds *)

\* interpreter events and stdout writes of the traced program in one run
MaxSteps == 5
\* depth of the traced program's frame stack
MaxDepth == 2
\* calls of the session API
MaxCalls == 4
\* monitoring callbacks delivered to the backend
MaxCallbacks == 3
\* writes of the proxy workers and the native workers together
MaxWrites == 3
\* events of the trace file given to check_trace_balance
MaxEvents == 4
\* writes to stdout by the second thread of the traced program
MaxThreadWrites == 1
\* nested calls of Tracer._value the interpreter allows before RecursionError
RecursionLimit == 3

----------------------------------------------------------------------------
(* Generic helpers on sequences *)

StartsWith(s, p) == Len(s) >= Len(p) /\ SubSeq(s, 1, Len(p)) = p

Range(s) == {s[i] : i \in 1..Len(s)}

Last(s) == s[Len(s)]

\* F applied to the value of v, which is computed once
With(v, F(_)) == CHOOSE r \in {F(x) : x \in {v}} : TRUE

----------------------------------------------------------------------------
(* Paths: os.path.abspath / os.path.relpath on POSIX                       *)

Slash == "/"

\* the interpreter's working directory (os.getcwd()), as characters
Cwd == <<"/", "w">>

FirstSlash(s) ==
    IF \E i \in 1..Len(s) : s[i] = Slash
    THEN CHOOSE i \in 1..Len(s) : s[i] = Slash /\ \A j \in 1..(i - 1) : s[j] # Slash
    ELSE Len(s) + 1

\* the components of a path: the text between slashes, empty components dropped
RECURSIVE SplitPath(_)
SplitPath(s) ==
    IF s = <<>> THEN <<>>
    ELSE IF Head(s) = Slash THEN SplitPath(Tail(s))
    ELSE With(FirstSlash(s), LAMBDA n :
              <<SubSeq(s, 1, n - 1)>> \o SplitPath(SubSeq(s, n + 1, Len(s))))

RECURSIVE JoinPath(_)
JoinPath(comps) ==
    IF comps = <<>> THEN <<>>
    ELSE IF Len(comps) = 1 THEN Head(comps)
    ELSE Head(comps) \o <<Slash>> \o JoinPath(Tail(comps))

\* os.path.abspath: a relative path is joined to the working directory
abspath(p) ==
    IF p # <<>> /\ Head(p) = Slash THEN <<Slash>> \o JoinPath(SplitPath(p))
    ELSE <<Slash>> \o JoinPath(SplitPath(Cwd) \o SplitPath(p))

RECURSIVE CommonLen(_, _)
CommonLen(a, b) ==
    IF a = <<>> \/ b = <<>> \/ Head(a) # Head(b) THEN 0
    ELSE 1 + CommonLen(Tail(a), Tail(b))

\* os.path.relpath(path, start) for two absolute paths
relpath(path, start) ==
    With(SplitPath(path), LAMBDA pl :
    With(SplitPath(start), LAMBDA sl :
    With(CommonLen(sl, pl), LAMBDA i :
    With([k \in 1..(Len(sl) - i) |-> <<".", ".">>] \o SubSeq(pl, i + 1, Len(pl)), LAMBDA rel :
         IF rel = <<>> THEN <<".">> ELSE JoinPath(rel)))))

\* str(Path(p).parent) for an absolute path
Parent(p) ==
    With(SplitPath(p), LAMBDA pl : <<Slash>> \o JoinPath(SubSeq(pl, 1, Len(pl) - 1)))

----------------------------------------------------------------------------
(* The traced program: code objects and runtime values                     *)

\* the program given to trace_program, and the files of the code objects
Program  == <<"/", "p", "/", "m">>
NearFile == <<"/", "p", "q", "/", "x">>
LibFile  == <<"/", "l", "/", "o">>

program_path == abspath(Program)
program_dir  == Parent(program_path)

NameA   == <<"a">>
NameX   == <<"x">>
NameF   == <<"f">>
NameN   == <<"n">>
NameDun == <<"_", "_", "n">>
ReturnValueName == <<"<", "r", ">">>

Code == [
    M |-> [co_name |-> "<module>", co_filename |-> Program,  co_firstlineno |-> 1,
           co_varnames |-> <<>>,       co_argcount |-> 0, gen |-> FALSE, nlines |-> 2],
    F |-> [co_name |-> "f",        co_filename |-> Program,  co_firstlineno |-> 2,
           co_varnames |-> <<NameA, NameX>>, co_argcount |-> 1, gen |-> FALSE, nlines |-> 2],
    G |-> [co_name |-> "g",        co_filename |-> Program,  co_firstlineno |-> 5,
           co_varnames |-> <<NameX>>,  co_argcount |-> 0, gen |-> TRUE,  nlines |-> 2],
    H |-> [co_name |-> "h",        co_filename |-> NearFile, co_firstlineno |-> 1,
           co_varnames |-> <<>>,       co_argcount |-> 0, gen |-> FALSE, nlines |-> 2],
    O |-> [co_name |-> "o",        co_filename |-> LibFile,  co_firstlineno |-> 1,
           co_varnames |-> <<>>,       co_argcount |-> 0, gen |-> FALSE, nlines |-> 2] ]

CodeIds == DOMAIN Code

\* runtime values
IntV(n)        == [k |-> "int", i |-> n]
BoolV(b)       == [k |-> "bool", b |-> b]
FloatV(t)      == [k |-> "float", f |-> t]
StrV(t)        == [k |-> "str", text |-> t]
BytesV(t)      == [k |-> "bytes", repr |-> t]
NoneV          == [k |-> "none"]
ListV(es)      == [k |-> "list", elems |-> es]
TupleV(es)     == [k |-> "tuple", elems |-> es]
ComplexV(r, j) == [k |-> "complex", real |-> r, imag |-> j]
\* an instance with a __dict__: attrs is a sequence of <<name, value>> in insertion order
ObjV(c, attrs) == [k |-> "obj", cls |-> c, attrs |-> attrs]
\* a function object (types.FunctionType); it has an (empty) __dict__
FuncV(c)       == [k |-> "func", code |-> c]
\* an object without __dict__ that none of the isinstance tests accept
OpaqueV(t)     == [k |-> "opaque", repr |-> t]
\* an imported module: its __dict__ holds attrs
ModuleV(attrs) == [k |-> "module", cls |-> "module", attrs |-> attrs]
\* an object without __dict__ (a class with __slots__) whose __str__ raises
BadStrV        == [k |-> "badstr"]
\* a reference to an object of the heap, by which an object can hold itself
RefV(id)       == [k |-> "ref", id |-> id]

ObjA == ObjV("A", << <<NameX, IntV(1)>>, <<NameA, FloatV("0.5")>> >>)
\* an instance of a user class that is named like a built-in type: class Tuple: pass
ObjTuple == ObjV("Tuple", <<>>)

\* import n, where n.py is: a = 1
ModN == ModuleV(<< <<NameA, IntV(1)>> >>)

\* objects that hold themselves: L = []; L.append(L), and an instance K of
\* class A with K.x = K
Heap == [L |-> ListV(<<RefV("L")>>),
         K |-> ObjV("A", << <<NameX, RefV("K")>> >>)]

\* values bound to arguments and locals, and values returned or yielded
ArgVals == {IntV(1), ListV(<<ObjA, IntV(1)>>), RefV("L"), RefV("K")}
RetVals == {IntV(1), NoneV, ObjTuple}

----------------------------------------------------------------------------
(* trace.py: class Tracer.  T is the record of the Tracer's fields; every   *)
(* method is an operator from T (and its arguments) to the new T.           *)

TracerFields == [events |-> events, paths |-> paths, path_map |-> path_map,
                 var_map |-> var_map, functions |-> functions, types |-> types,
                 raised |-> "none"]

EmptyTracer == [events |-> <<>>, paths |-> <<>>, path_map |-> <<>>,
                var_map |-> <<>>, functions |-> <<>>, types |-> <<>>,
                raised |-> "none"]

\* T.raised is the exception that is propagating out of the method that runs
\* ("none": no exception); what the method would have done next is skipped
Raise(T, exc) == [T EXCEPT !.raised = exc]
Raised(T) == T.raised # "none"

emit(T, event) == [T EXCEPT !.events = Append(@, event)]

\* a bug variant: type ids are counted from one
register_type_from_one(T, kind, name) ==
    IF name \notin DOMAIN T.types
    THEN emit([T EXCEPT !.types = (name :> Cardinality(DOMAIN T.types) + 1) @@ @],
              [tag |-> "Type", kind |-> kind, lang_type |-> name])
    ELSE T

\* Tracer._register_type; the id it returns is T'.types[name]
register_type(T, kind, name) ==
    IF name \notin DOMAIN T.types
    THEN emit([T EXCEPT !.types = (name :> Cardinality(DOMAIN T.types)) @@ @],
              [tag |-> "Type", kind |-> kind, lang_type |-> name])
    ELSE T

BuiltinTypes == << <<7, "Integer">>, <<9, "String">>, <<12, "Bool">>,
                   <<9, "Symbol">>, <<24, "No type">>, <<8, "Float">>,
                   <<27, "Tuple">>, <<16, "Bytes">>, <<6, "Complex">> >>

RECURSIVE register_types(_, _)
register_types(T, kinds) ==
    IF kinds = <<>> THEN T
    ELSE With(register_type(T, Head(kinds)[1], Head(kinds)[2]), LAMBDA T1 :
              register_types(T1, Tail(kinds)))

\* Tracer._register_builtin_types
register_builtin_types(T) == register_types(T, BuiltinTypes)

\* the path as Tracer._register_path stores it: relative to the program's directory
StoredPath(path) ==
    IF path # <<>> THEN relpath(abspath(path), program_dir) ELSE path

\* Tracer._register_path; the id it returns is T'.path_map[StoredPath(path)]
register_path(T, path) ==
    With(StoredPath(path), LAMBDA p :
         IF p \notin DOMAIN T.path_map
         THEN emit([T EXCEPT !.path_map = (p :> Len(T.paths)) @@ @,
                             !.paths = Append(@, p)],
                   [tag |-> "Path", path |-> p])
         ELSE T)

FunctionEvent(T, path, line, name) ==
    [tag |-> "Function", path_id |-> T.path_map[StoredPath(path)],
     line |-> line, name |-> name]

NewFunction(T, key) ==
    [T EXCEPT !.functions = (key :> Cardinality(DOMAIN T.functions)) @@ @]

\* a bug variant: the Function event is appended before the Path event of a
\* path registered for it
register_function_before_path(T, path, line, name) ==
    IF <<path, line, name>> \notin DOMAIN T.functions
    THEN With(NewFunction(T, <<path, line, name>>), LAMBDA T1 :
         With(register_path(T1, path), LAMBDA T2 :
         With(emit(T1, FunctionEvent(T2, path, line, name)), LAMBDA T3 :
              register_path(T3, path))))
    ELSE T

\* a bug variant: the test whether the key is already registered is dropped
register_function_always_new(T, path, line, name) ==
    With([T EXCEPT !.functions = (<<path, line, name>> :> Cardinality(DOMAIN T.functions)) @@ @],
         LAMBDA T1 :
    With(register_path(T1, path), LAMBDA T2 :
         emit(T2, FunctionEvent(T2, path, line, name))))

\* Tracer._register_function; the id it returns is T'.functions[<<path, line, name>>]
register_function(T, path, line, name) ==
    IF <<path, line, name>> \notin DOMAIN T.functions
    THEN With(NewFunction(T, <<path, line, name>>), LAMBDA T1 :
         With(register_path(T1, path), LAMBDA T2 :
              emit(T2, FunctionEvent(T2, path, line, name))))
    ELSE T

\* Tracer._register_functions_in_locals, over the bindings still to visit
RECURSIVE register_functions_in(_, _, _)
register_functions_in(T, bindings, lineno) ==
    IF bindings = <<>> THEN T
    ELSE With(Head(bindings)[2], LAMBDA val :
         With(IF val.k = "func" /\ Code[val.code].co_firstlineno = lineno
              THEN register_function(T, abspath(Code[val.code].co_filename),
                                     Code[val.code].co_firstlineno,
                                     Code[val.code].co_name)
              ELSE T,
              LAMBDA T1 : register_functions_in(T1, Tail(bindings), lineno)))

register_functions_in_locals(T, frame) ==
    register_functions_in(T, frame.f_locals, frame.f_lineno)

\* a bug variant: a name gets a new id each time it is interned
var_id_always_new(T, name) ==
    emit([T EXCEPT !.var_map = (name :> Len(SelectSeq(T.events,
                                        LAMBDA e : e.tag = "VariableName"))) @@ @],
         [tag |-> "VariableName", name |-> name])

\* Tracer._var_id; the id it returns is T'.var_map[name]
var_id(T, name) ==
    IF name \notin DOMAIN T.var_map
    THEN emit([T EXCEPT !.var_map = (name :> Cardinality(DOMAIN T.var_map)) @@ @],
              [tag |-> "VariableName", name |-> name])
    ELSE T

\* Tracer._ensure_type
ensure_type(T, kind, name) ==
    IF name \notin DOMAIN T.types THEN register_type(T, kind, name) ELSE T

\* code points of the characters the model's names use
Ord(c) == CASE c = "_" -> 95 [] c = "a" -> 97 [] c = "f" -> 102 [] c = "n" -> 110
            [] c = "x" -> 120 [] c = "<" -> 60 [] c = ">" -> 62 [] c = "r" -> 114
            [] OTHER -> 0

RECURSIVE LexLess(_, _)
LexLess(a, b) ==
    IF b = <<>> THEN FALSE
    ELSE IF a = <<>> THEN TRUE
    ELSE IF Head(a) = Head(b) THEN LexLess(Tail(a), Tail(b))
    ELSE Ord(Head(a)) < Ord(Head(b))

\* sorted(items, key=lambda kv: kv[0]); the keys of a dict are distinct
RECURSIVE SortedByKey(_)
SortedByKey(items) ==
    IF items = <<>> THEN <<>>
    ELSE With(CHOOSE i \in 1..Len(items) :
                  \A j \in 1..Len(items) : j # i => LexLess(items[i][1], items[j][1]),
              LAMBDA least :
                  <<items[least]>> \o
                  SortedByKey([j \in 1..(Len(items) - 1) |->
                                   IF j < least THEN items[j] ELSE items[j + 1]]))

\* str(val) of a value that is neither a number nor a string
StrOf(val) == <<val.k, val.repr>>

Encoded(T, enc) == [T |-> T, v |-> enc]

\* what _value returns when it raises: nothing
NoValue == [kind |-> "Raised"]

\* Tracer._value at the given depth of nested _value calls:
\* [T |-> the Tracer afterwards, v |-> the encoded value];
\* value_all is a list comprehension [self._value(v) for v in vals]
RECURSIVE value_at(_, _, _), value_all(_, _, _)
value_all(T, vals, depth) ==
    IF vals = <<>> THEN [T |-> T, vs |-> <<>>]
    ELSE With(value_at(T, Head(vals), depth), LAMBDA h :
         IF Raised(h.T) THEN [T |-> h.T, vs |-> <<>>]
         ELSE With(value_all(h.T, Tail(vals), depth), LAMBDA t :
                   [T |-> t.T, vs |-> <<h.v>> \o t.vs]))

value_at(T, val, depth) ==
    IF depth > RecursionLimit THEN Encoded(Raise(T, "RecursionError"), NoValue)
    ELSE
    CASE val.k = "ref" -> value_at(T, Heap[val.id], depth)
      [] val.k = "bool" ->
           Encoded(T, [kind |-> "Bool", type_id |-> T.types["Bool"], b |-> val.b])
      [] val.k = "int" ->
           Encoded(T, [kind |-> "Int", type_id |-> T.types["Integer"], i |-> val.i])
      [] val.k = "float" ->
           With(ensure_type(T, 8, "Float"), LAMBDA T1 :
                Encoded(T1, [kind |-> "Float", type_id |-> T1.types["Float"], f |-> val.f]))
      [] val.k = "str" ->
           Encoded(T, [kind |-> "String", type_id |-> T.types["String"], text |-> val.text])
      [] val.k = "bytes" ->
           With(ensure_type(T, 16, "Bytes"), LAMBDA T1 :
                Encoded(T1, [kind |-> "Raw", type_id |-> T1.types["Bytes"], r |-> StrOf(val)]))
      [] val.k = "list" ->
           With(ensure_type(T, 0, "Array"), LAMBDA T1 :
           With(value_all(T1, val.elems, depth + 1), LAMBDA es :
                Encoded(es.T, [kind |-> "Sequence", type_id |-> T1.types["Array"],
                               elements |-> es.vs, is_slice |-> FALSE])))
      [] val.k = "tuple" ->
           With(ensure_type(T, 27, "Tuple"), LAMBDA T1 :
           With(value_all(T1, val.elems, depth + 1), LAMBDA es :
                Encoded(es.T, [kind |-> "Tuple", type_id |-> T1.types["Tuple"],
                               elements |-> es.vs])))
      [] val.k = "complex" ->
           With(ensure_type(T, 6, "Complex"), LAMBDA T1 :
           With(value_all(T1, <<FloatV(val.real), FloatV(val.imag)>>, depth + 1), LAMBDA es :
                Encoded(es.T, [kind |-> "Struct", type_id |-> T1.types["Complex"],
                               field_values |-> es.vs])))
      [] val.k = "none" ->
           Encoded(T, [kind |-> "None", type_id |-> T.types["No type"]])
      [] val.k \in {"obj", "module"} ->
           With(ensure_type(T, 6, val.cls), LAMBDA T1 :
           With(SortedByKey(val.attrs), LAMBDA sorted :
           With(value_all(T1, [i \in 1..Len(sorted) |-> sorted[i][2]], depth + 1), LAMBDA es :
                Encoded(es.T, [kind |-> "Struct", type_id |-> T1.types[val.cls],
                               field_values |-> es.vs]))))
      [] val.k = "func" ->
           With(ensure_type(T, 6, "function"), LAMBDA T1 :
                Encoded(T1, [kind |-> "Struct", type_id |-> T1.types["function"],
                             field_values |-> <<>>]))
      [] val.k = "badstr" ->
           With(ensure_type(T, 16, "Object"), LAMBDA T1 :
                Encoded(Raise(T1, "ValueError"), NoValue))
      [] OTHER ->
           With(ensure_type(T, 16, "Object"), LAMBDA T1 :
                Encoded(T1, [kind |-> "Raw", type_id |-> T1.types["Object"], r |-> StrOf(val)]))

value(T, val) == value_at(T, val, 0)

ValueEvent(T, name, enc) ==
    [tag |-> "Value", variable_id |-> T.var_map[name], value |-> enc]

\* Tracer._capture_locals, over the bindings still to visit
RECURSIVE capture_bindings(_, _)
capture_bindings(T, bindings) ==
    IF bindings = <<>> THEN T
    ELSE IF StartsWith(Head(bindings)[1], <<"_", "_">>) \/ Head(bindings)[2].k = "func"
    THEN capture_bindings(T, Tail(bindings))
    ELSE With(var_id(T, Head(bindings)[1]), LAMBDA T1 :
         With(value(T1, Head(bindings)[2]), LAMBDA r :
         IF Raised(r.T) THEN r.T
         ELSE With(emit(r.T, ValueEvent(r.T, Head(bindings)[1], r.v)), LAMBDA T2 :
                   capture_bindings(T2, Tail(bindings)))))

capture_locals(T, frame) == capture_bindings(T, frame.f_locals)

StepEvent(T, frame) ==
    [tag |-> "Step",
     path_id |-> T.path_map[StoredPath(abspath(Code[frame.f_code].co_filename))],
     line |-> frame.f_lineno]

\* Tracer.handle_line
handle_line(T, frame) ==
    With(register_path(T, abspath(Code[frame.f_code].co_filename)), LAMBDA T1 :
    With(emit(T1, StepEvent(T1, frame)), LAMBDA T2 :
    With(register_functions_in_locals(T2, frame), LAMBDA T3 :
         capture_locals(T3, frame))))

Lookup(bindings, name) ==
    bindings[CHOOSE i \in 1..Len(bindings) : bindings[i][1] = name][2]

Bound(bindings) == {bindings[i][1] : i \in 1..Len(bindings)}

\* the loop of Tracer.handle_call over code.co_varnames[:code.co_argcount]
RECURSIVE call_args(_, _, _)
call_args(T, names, bindings) ==
    IF names = <<>> THEN [T |-> T, args |-> <<>>]
    ELSE IF Head(names) \in Bound(bindings)
    THEN With(var_id(T, Head(names)), LAMBDA T1 :
         With(value(T1, Lookup(bindings, Head(names))), LAMBDA r :
         IF Raised(r.T) THEN [T |-> r.T, args |-> <<>>] ELSE
         With(call_args(r.T, Tail(names), bindings), LAMBDA t :
              [T |-> t.T,
               args |-> <<[variable_id |-> T1.var_map[Head(names)], value |-> r.v]>>
                        \o t.args])))
    ELSE call_args(T, Tail(names), bindings)

FunctionKey(code) == <<abspath(code.co_filename), code.co_firstlineno, code.co_name>>

\* Tracer.handle_call
handle_call(T, frame) ==
    With(Code[frame.f_code], LAMBDA code :
    With(register_function(T, abspath(code.co_filename), code.co_firstlineno, code.co_name),
         LAMBDA T1 :
    With(call_args(T1, SubSeq(code.co_varnames, 1, code.co_argcount), frame.f_locals),
         LAMBDA a :
         IF Raised(a.T) THEN a.T
         ELSE emit(a.T, [tag |-> "Call", function_id |-> T1.functions[FunctionKey(code)],
                         args |-> a.args]))))

\* Tracer.handle_return
handle_return(T, frame, arg) ==
    With(register_path(T, abspath(Code[frame.f_code].co_filename)), LAMBDA T1 :
    With(emit(T1, StepEvent(T1, frame)), LAMBDA T2 :
    With(capture_locals(T2, frame), LAMBDA T3 :
    IF Raised(T3) THEN T3 ELSE
    With(var_id(T3, ReturnValueName), LAMBDA T4 :
    With(value(T4, arg), LAMBDA r :
    IF Raised(r.T) THEN r.T ELSE
    With(emit(r.T, ValueEvent(r.T, ReturnValueName, r.v)), LAMBDA T5 :
         emit(T5, [tag |-> "Return", return_value |-> r.v])))))))

\* text.rstrip("\n")
RECURSIVE rstrip_newline(_)
rstrip_newline(text) ==
    IF text # <<>> /\ Last(text) = "\n"
    THEN rstrip_newline(SubSeq(text, 1, Len(text) - 1))
    ELSE text

\* StdoutInterceptor.write, after self.original.write(text): the Tracer afterwards
StdoutInterceptor_write(T, text) ==
    IF text # <<>> /\ text # <<"\n">>
    THEN emit(T, [tag |-> "Event", kind |-> 0, metadata |-> "",
                  content |-> rstrip_newline(text)])
    ELSE T

\* Tracer.__init__
TracerInit ==
    With(register_builtin_types(EmptyTracer), LAMBDA T1 :
    With(register_path(T1, <<>>), LAMBDA T2 :
    With(register_function(T2, <<>>, 1, "<top-level>"), LAMBDA T3 :
         emit(T3, [tag |-> "Call", function_id |-> 0, args |-> <<>>]))))

----------------------------------------------------------------------------
(* trace.py: trace_program.  The interpreter delivers sys.settrace events   *)
(* to global_trace (a new or resumed frame) and local_trace (a frame that   *)
(* global_trace accepted).                                                  *)

InProgramDir(frame) ==
    StartsWith(abspath(Code[frame.f_code].co_filename), program_dir)

\* trace_program.global_trace: [T, local |-> whether it returned local_trace]
global_trace(T, frame, event) ==
    IF ~InProgramDir(frame) THEN [T |-> T, local |-> FALSE]
    ELSE IF event = "call" THEN [T |-> handle_call(T, frame), local |-> TRUE]
    ELSE [T |-> T, local |-> FALSE]

\* trace_program.local_trace
local_trace(T, frame, event, arg) ==
    IF ~InProgramDir(frame) THEN [T |-> T, local |-> FALSE]
    ELSE IF event = "line" THEN [T |-> handle_line(T, frame), local |-> TRUE]
    ELSE IF event = "call" THEN [T |-> handle_call(T, frame), local |-> TRUE]
    ELSE IF event = "return" THEN [T |-> handle_return(T, frame, arg), local |-> TRUE]
    ELSE [T |-> T, local |-> TRUE]

SetTracer(T) ==
    /\ events' = T.events
    /\ paths' = T.paths
    /\ path_map' = T.path_map
    /\ var_map' = T.var_map
    /\ functions' = T.functions
    /\ types' = T.types

\* the frame's locals when the interpreter enters it
InitLocals(c, a) ==
    CASE c = "M" -> << <<NameDun, StrV("main")>> >>
      [] c = "F" -> << <<NameA, a>> >>
      [] OTHER   -> <<>>

ArgsOf(c) == IF c = "F" THEN ArgVals ELSE {NoneV}

\* what executing one line may do to the frame's locals
NoEffect == <<>>
Effects(c) ==
    {NoEffect}
        \cup (IF c = "M" THEN {<<NameF, FuncV("F")>>} ELSE {})
        \cup (IF c = "H" THEN {<<NameX, BadStrV>>, <<NameN, ModN>>}
              ELSE {<<NameX, ListV(<<ObjA, IntV(1)>>)>>})

AllEffects == UNION {Effects(c) : c \in CodeIds}

Bind(bindings, eff) ==
    IF eff = NoEffect THEN bindings
    ELSE IF eff[1] \in Bound(bindings)
    THEN [i \in 1..Len(bindings) |->
              IF bindings[i][1] = eff[1] THEN eff ELSE bindings[i]]
    ELSE Append(bindings, eff)

NextLine(frame) ==
    LET first == Code[frame.f_code].co_firstlineno
    IN IF frame.f_lineno >= first + Code[frame.f_code].nlines
       THEN first + 1 ELSE frame.f_lineno + 1

Top == stack[Len(stack)]
Pop == SubSeq(stack, 1, Len(stack) - 1)

Running == pc = "running" /\ steps < MaxSteps

\* an exception left the trace function: the interpreter removes the trace
\* function and the exception propagates into the traced program
Faulted(r) == Raised(r.T)

Record(op, frame, r) ==
    last' = [op |-> op, n |-> Len(events), traced |-> frame.traced,
             opened |-> frame.opened, code |-> frame.f_code,
             locals |-> frame.f_locals, raised |-> r.T.raised]

\* the frame as the stack keeps it after the "call" event: whether a local
\* trace function was installed, and the function_id of the Call that opened it
Entered(frame, r) ==
    [frame EXCEPT !.traced = r.local,
                  !.opened = IF r.local THEN Last(r.T.events).function_id ELSE -1]

NewFrame(c, a) ==
    [f_code |-> c, f_locals |-> InitLocals(c, a),
     f_lineno |-> Code[c].co_firstlineno, traced |-> FALSE, opened |-> -1]

Untraced == [T |-> TracerFields, local |-> FALSE]

\* a "call" event: the interpreter enters a new frame
PyCall(c, a) ==
    /\ Running
    /\ Len(stack) < MaxDepth
    /\ (stack = <<>>) <=> (c = "M")
    /\ \E r \in {global_trace(TracerFields, NewFrame(c, a), "call")} :
          /\ SetTracer(r.T)
          /\ stack' = IF Faulted(r) THEN stack
                      ELSE Append(stack, Entered(NewFrame(c, a), r))
          /\ Record("call", IF Faulted(r) THEN [NewFrame(c, a) EXCEPT !.traced = TRUE]
                            ELSE Entered(NewFrame(c, a), r), r)
          /\ pc' = IF Faulted(r) THEN "faulted" ELSE pc
    /\ steps' = steps + 1
    /\ UNCHANGED <<suspended, files, out, sessionVars, backendVars, ledgerVars,
                 callerVars, balanceVars>>

\* a "line" event in the innermost frame, then the line executes
PyLine(eff) ==
    /\ Running
    /\ stack # <<>>
    /\ Top.traced
    /\ eff \in Effects(Top.f_code)
    /\ \E frame \in {[Top EXCEPT !.f_lineno = NextLine(Top)]} :
       \E r \in {local_trace(TracerFields, frame, "line", NoneV)} :
          /\ SetTracer(r.T)
          /\ stack' = IF Faulted(r) THEN stack
                      ELSE Append(Pop, [frame EXCEPT !.traced = r.local,
                                                     !.f_locals = Bind(@, eff)])
          /\ Record("line", frame, r)
          /\ pc' = IF Faulted(r) THEN "faulted" ELSE pc
    /\ steps' = steps + 1
    /\ UNCHANGED <<suspended, files, out, sessionVars, backendVars, ledgerVars,
                 callerVars, balanceVars>>

\* an "exception" event in the innermost frame, which handles the exception
PyException ==
    /\ Running
    /\ stack # <<>>
    /\ Top.traced
    /\ \E r \in {local_trace(TracerFields, Top, "exception", NoneV)} :
          /\ SetTracer(r.T)
          /\ stack' = Append(Pop, [Top EXCEPT !.traced = r.local])
          /\ Record("exception", Top, r)
    /\ steps' = steps + 1
    /\ UNCHANGED <<suspended, pc, files, out, sessionVars, backendVars, ledgerVars,
                 callerVars, balanceVars>>

\* a "return" event: the innermost frame returns arg.  When the module's
\* frame returns, runpy.run_path returns and trace_program ends tracing.
PyReturn(arg) ==
    /\ Running
    /\ stack # <<>>
    /\ \E r \in {IF Top.traced THEN local_trace(TracerFields, Top, "return", arg)
                 ELSE Untraced} :
          /\ SetTracer(r.T)
          /\ Record("return", Top, r)
          /\ stack' = IF Faulted(r) THEN stack ELSE Pop
          /\ pc' = IF Faulted(r) THEN "faulted"
                   ELSE IF Top.f_code = "M" THEN "done" ELSE pc
    /\ steps' = steps + 1
    /\ UNCHANGED <<suspended, files, out, sessionVars, backendVars, ledgerVars,
                 callerVars, balanceVars>>

\* an exception propagates out of the innermost frame: an "exception" event,
\* then a "return" event with arg None.  Out of the module's frame it
\* propagates out of runpy.run_path and trace_program.
PyUnwind ==
    /\ Running
    /\ stack # <<>>
    /\ \E r1 \in {IF Top.traced THEN local_trace(TracerFields, Top, "exception", NoneV)
                  ELSE Untraced} :
       \E r2 \in {IF r1.local THEN local_trace(r1.T, Top, "return", NoneV) ELSE r1} :
          /\ SetTracer(r2.T)
          /\ Record("unwind", Top, r2)
          /\ stack' = IF Faulted(r2) THEN stack ELSE Pop
          /\ pc' = IF Faulted(r2) THEN "faulted"
                   ELSE IF Len(stack) = 1 THEN "crashed" ELSE pc
    /\ steps' = steps + 1
    /\ UNCHANGED <<suspended, files, out, sessionVars, backendVars, ledgerVars,
                 callerVars, balanceVars>>

\* a generator frame yields arg: a "return" event, and the frame is kept
PyYield(arg) ==
    /\ Running
    /\ stack # <<>>
    /\ Code[Top.f_code].gen
    /\ \E r \in {IF Top.traced THEN local_trace(TracerFields, Top, "return", arg)
                 ELSE Untraced} :
          /\ SetTracer(r.T)
          /\ Record("yield", Top, r)
          /\ suspended' = IF Faulted(r) THEN suspended
                          ELSE suspended \cup {[Top EXCEPT !.traced = r.local]}
          /\ stack' = IF Faulted(r) THEN stack ELSE Pop
          /\ pc' = IF Faulted(r) THEN "faulted" ELSE pc
    /\ steps' = steps + 1
    /\ UNCHANGED <<files, out, sessionVars, backendVars, ledgerVars,
                 callerVars, balanceVars>>

\* a suspended generator frame is resumed: a "call" event for the same frame
PyResume(g) ==
    /\ Running
    /\ stack # <<>>
    /\ Len(stack) < MaxDepth
    /\ g \in suspended
    /\ \E r \in {global_trace(TracerFields, g, "call")} :
          /\ SetTracer(r.T)
          /\ stack' = IF Faulted(r) THEN stack
                      ELSE Append(stack, [g EXCEPT !.traced = r.local])
          /\ Record("resume", g, r)
          /\ suspended' = IF Faulted(r) THEN suspended ELSE suspended \ {g}
          /\ pc' = IF Faulted(r) THEN "faulted" ELSE pc
    /\ steps' = steps + 1
    /\ UNCHANGED <<files, out, sessionVars, backendVars, ledgerVars,
                 callerVars, balanceVars>>

\* what the traced program writes to sys.stdout: print("a") writes "a" and
\* then "\n"; sys.stdout.write("a\n") writes both at once
WrittenTexts == { <<"a">>, <<"\n">>, <<"a", "\n">> }

\* the traced program calls sys.stdout.write(text) while sys.stdout is the
\* StdoutInterceptor (any frame, traced or not)
PyWrite(text) ==
    /\ Running
    /\ stack # <<>>
    /\ out' = out \o text
    /\ SetTracer(StdoutInterceptor_write(TracerFields, text))
    /\ Record("write", Top, Untraced)
    /\ steps' = steps + 1
    /\ UNCHANGED <<stack, suspended, pc, files, sessionVars, backendVars, ledgerVars,
                   callerVars, balanceVars>>

\* the __main__ block after trace_program returned
WriteFiles ==
    /\ pc = "done"
    /\ files' = [trace_metadata |-> {"workdir", "program", "args"},
                 trace_paths |-> paths,
                 trace |-> events]
    /\ pc' = "written"
    /\ UNCHANGED <<tracerVars, stack, suspended, steps, last, out,
                   sessionVars, backendVars, ledgerVars, callerVars, balanceVars>>

NoFiles == [trace_metadata |-> {}, trace_paths |-> <<>>, trace |-> <<>>]

\* the second thread has written nothing, the main thread is in no callback
NoThread == [pending |-> 0, writes |-> 0]

\* no thread is inside start()
StartThreads == {1, 2}
NoStart == [pc |-> "idle", args |-> <<>>, raised |-> "none", id |-> 0]
NoStarters == [t \in StartThreads |-> NoStart]

\* the trace.py part before a Tracer exists
NoTracer ==
    /\ events = <<>> /\ paths = <<>> /\ path_map = <<>> /\ var_map = <<>>
    /\ functions = <<>> /\ types = <<>>
    /\ stack = <<>> /\ suspended = {} /\ pc = "idle" /\ files = NoFiles
    /\ steps = 0
    /\ last = [op |-> "init", n |-> 0, traced |-> FALSE, opened |-> -1, code |-> "M",
               locals |-> <<>>, raised |-> "none"]
    /\ out = <<>>
    /\ thread = NoThread
    /\ starters = NoStarters

\* run_trial before any worker has written
NoLedger ==
    /\ entries = <<>> /\ next_seq = 0 /\ pipe = <<>> /\ writer = <<>>
    /\ proxy_events = <<>> /\ native_payload = <<>> /\ mirror_payload = <<>>
    /\ nwrites = 0
    /\ piped = <<>>
    /\ closed = FALSE
    /\ mirror = [total_bytes |-> 0, matched_bytes |-> 0, matched |-> <<>>,
                 done |-> FALSE, raised |-> FALSE]

----------------------------------------------------------------------------
(* The native backend that session.py imports (start_tracing, stop_tracing, *)
(* flush_tracing, is_tracing, configure_policy, configure_policy_from_env), *)
(* with its activation gate, scope filter and monitoring callbacks.  The    *)
(* Step events of this part carry the path only; values are encoded         *)
(* without type ids.                                                        *)

\* Python's None: as a label, as a path, as an exit code, as a session
None == "None"
NoPath == <<>>
NoCode == -1
NoHandle == [id |-> 0]

NoMeta == [process_exit_status |-> [code |-> NoCode, label |-> None]]

InitialPolicy == [from_env |-> FALSE, overrides |-> {}]

\* configure_policy_from_env: the settings are read again from the environment
configure_policy_from_env(pol) == [from_env |-> TRUE, overrides |-> {}]

\* configure_policy(**kwargs): the given settings override the current ones
configure_policy(pol, kwargs) == [pol EXCEPT !.overrides = @ \cup kwargs]

\* the gate of a new session: open at once when no activation path is set
new_gate(activation) == [path |-> activation, active |-> activation = NoPath]

\* a bug variant: the first function-start of any file opens the gate
gate_opens_on_any_start(g, c) == [g EXCEPT !.active = TRUE]

\* the gate after the function-start callback of code c
gate_on_start(g, c) ==
    IF ~g.active /\ abspath(Code[c].co_filename) = g.path
    THEN [g EXCEPT !.active = TRUE]
    ELSE g

\* the module a code object belongs to, as the filter's selectors see it
Module(c) == IF Code[c].co_filename = Program THEN "__main__" ELSE "lib"

FilterTraceAll == [default_exec |-> "trace", rules |-> <<>>]
FilterSkipMain == [default_exec |-> "trace",
                   rules |-> <<[selector |-> "__main__", exec |-> "skip"]>>]
Filters == {FilterTraceAll, FilterSkipMain}

\* rules are evaluated top to bottom, first match wins
RECURSIVE rules_exec(_, _, _)
rules_exec(rules, c, default) ==
    IF rules = <<>> THEN default
    ELSE IF Head(rules).selector = Module(c) THEN Head(rules).exec
    ELSE rules_exec(Tail(rules), c, default)

filter_exec(flt, c) == rules_exec(flt.rules, c, flt.default_exec)

\* a bug variant: the scope filter is not consulted
records_ignoring_filter(g, flt, c) == g.active

\* whether the adapter records a frame of code c that starts now
records(g, flt, c) == g.active /\ filter_exec(flt, c) = "trace"

TopLevelName == "<toplevel>"

FunctionOf(c) ==
    [tag |-> "Function", name |-> Code[c].co_name,
     path |-> abspath(Code[c].co_filename), line |-> Code[c].co_firstlineno]

NumTag(s, tag) == Cardinality({i \in 1..Len(s) : s[i].tag = tag})

\* the stream after interning the function of code c
intern_function(stream, c) ==
    IF \E i \in 1..Len(stream) : stream[i] = FunctionOf(c)
    THEN stream ELSE Append(stream, FunctionOf(c))

\* the id of an interned function: its rank among the Function events
function_id(stream, c) ==
    With(CHOOSE i \in 1..Len(stream) : stream[i] = FunctionOf(c), LAMBDA i :
         NumTag(SubSeq(stream, 1, i - 1), "Function"))

encode(val) ==
    CASE val.k = "int"  -> [kind |-> "Int", i |-> val.i]
      [] val.k = "none" -> [kind |-> "None"]
      [] OTHER          -> [kind |-> "Raw", r |-> "<object>"]

Raw(text) == [kind |-> "Raw", r |-> text]

ExitPlaceholder == [kind |-> "String", text |-> "<exit>"]

\* the value of the top-level Return and the metadata's process_exit_status
exit_value(code) == IF code = NoCode THEN ExitPlaceholder ELSE [kind |-> "Int", i |-> code]
exit_status(code) ==
    IF code = NoCode THEN [code |-> NoCode, label |-> "<exit>"]
    ELSE [code |-> code, label |-> None]

ReturnEvent(v) == [tag |-> "Return", return_value |-> v]

\* one synthesized Return per frame that is still recorded as open
RECURSIVE close_open_frames(_, _)
close_open_frames(stream, fs) ==
    IF fs = <<>> THEN stream
    ELSE With(IF Last(fs).rec THEN Append(stream, ReturnEvent(Raw("<unwound>")))
              ELSE stream,
              LAMBDA s1 : close_open_frames(s1, SubSeq(fs, 1, Len(fs) - 1)))

Forgotten(fs) == [i \in 1..Len(fs) |-> [fs[i] EXCEPT !.rec = FALSE]]

is_tracing_backend == tracing

\* start_tracing(path, format, activation_path) with the scope filter flt
start_tracing(path, format, activation, flt) ==
    /\ tracing' = TRUE
    /\ gate' = new_gate(activation)
    /\ scope' = flt
    /\ bstream' = <<[tag |-> "Function", name |-> TopLevelName, path |-> <<>>, line |-> 1],
                    [tag |-> "Call", function_id |-> 0, args |-> <<>>]>>
    /\ bmeta' = NoMeta
    /\ durable' = 0
    /\ entered' = {}
    /\ poisoned' = FALSE
    /\ UNCHANGED <<frames, parked, ncallbacks>>

\* stop_tracing(exit_code); a no-op when no session is active
stop_tracing(code) ==
    IF ~tracing THEN UNCHANGED <<tracing, gate, scope, bstream, bmeta, durable,
                                 frames, parked, entered, ncallbacks, poisoned>>
    ELSE /\ tracing' = FALSE
         /\ \E s1 \in {Append(close_open_frames(bstream, frames),
                              ReturnEvent(exit_value(code)))} :
                /\ bstream' = s1
                /\ durable' = Len(s1)
         /\ bmeta' = [process_exit_status |-> exit_status(code)]
         /\ frames' = Forgotten(frames)
         /\ parked' = {[g EXCEPT !.rec = FALSE] : g \in parked}
         /\ UNCHANGED <<gate, scope, entered, ncallbacks, poisoned>>

\* flush_tracing(): everything written so far becomes durable
flush_tracing ==
    /\ durable' = Len(bstream)
    /\ UNCHANGED <<tracing, gate, scope, bstream, bmeta, frames, parked,
                   entered, ncallbacks, poisoned>>

\* what the session API and the backend never touch
OtherParts == <<tracerVars, interpVars, threadVars, ledgerVars, balanceVars>>

Callback ==
    /\ tracing
    /\ ncallbacks < MaxCallbacks
    /\ ncallbacks' = ncallbacks + 1
    /\ UNCHANGED <<sessionVars, tracing, policy, scope, bmeta, durable, poisoned,
                   OtherParts, callerVars>>

TopFrame == frames[Len(frames)]
PopFrame == SubSeq(frames, 1, Len(frames) - 1)

\* start: the interpreter enters a frame of code c
cb_start(c) ==
    /\ Callback
    /\ Len(frames) < MaxDepth
    /\ \E g \in {gate_on_start(gate, c)} :
          /\ gate' = g
          /\ IF records(g, scope, c) /\ ~poisoned
             THEN \E s1 \in {intern_function(bstream, c)} :
                     /\ bstream' = Append(s1, [tag |-> "Call",
                                               function_id |-> function_id(s1, c),
                                               args |-> <<>>])
                     /\ frames' = Append(frames, [code |-> c, rec |-> TRUE])
             ELSE /\ bstream' = bstream
                  /\ frames' = Append(frames, [code |-> c, rec |-> FALSE])
    /\ entered' = entered \cup {c}
    /\ UNCHANGED parked

\* line: a line of the innermost frame
cb_line ==
    /\ Callback
    /\ frames # <<>>
    /\ bstream' = IF TopFrame.rec
                  THEN Append(bstream, [tag |-> "Step",
                                        path |-> abspath(Code[TopFrame.code].co_filename)])
                  ELSE bstream
    /\ UNCHANGED <<gate, frames, parked, entered>>

\* return: the innermost frame returns val
cb_return(val) ==
    /\ Callback
    /\ frames # <<>>
    /\ bstream' = IF TopFrame.rec THEN Append(bstream, ReturnEvent(encode(val)))
                  ELSE bstream
    /\ frames' = PopFrame
    /\ UNCHANGED <<gate, parked, entered>>

\* unwind: an exception propagates out of the innermost frame
cb_unwind ==
    /\ Callback
    /\ frames # <<>>
    /\ bstream' = IF TopFrame.rec THEN Append(bstream, ReturnEvent(Raw("<unwound>")))
                  ELSE bstream
    /\ frames' = PopFrame
    /\ UNCHANGED <<gate, parked, entered>>

\* yield: the innermost frame, a generator's, suspends
cb_yield ==
    /\ Callback
    /\ frames # <<>>
    /\ Code[TopFrame.code].gen
    /\ bstream' = IF TopFrame.rec THEN Append(bstream, ReturnEvent(Raw("<yield>")))
                  ELSE bstream
    /\ frames' = PopFrame
    /\ parked' = parked \cup {TopFrame}
    /\ UNCHANGED <<gate, entered>>

\* resume: a suspended generator frame continues
cb_resume(g) ==
    /\ Callback
    /\ g \in parked
    /\ Len(frames) < MaxDepth
    /\ bstream' = IF g.rec THEN Append(bstream, [tag |-> "Call",
                                                 function_id |-> function_id(bstream, g.code),
                                                 args |-> <<>>])
                  ELSE bstream
    /\ frames' = Append(frames, g)
    /\ parked' = parked \ {g}
    /\ UNCHANGED <<gate, entered>>

----------------------------------------------------------------------------
(* codetracer_python_recorder/session.py                                    *)

\* what exists at the paths start() is given
PathKind == [dir |-> "dir", file |-> "file"]

SUPPORTED_FORMATS == {"binary", "json"}

StartArgs(path, format, start_on_enter, pol, apply_env_policy, flt) ==
    [path |-> path, format |-> format, start_on_enter |-> start_on_enter,
     policy |-> pol, apply_env_policy |-> apply_env_policy, flt |-> flt]

\* the calls of start() that are made: a plain start, the command line's start
\* (activation on the script), a start with a filter that skips the script,
\* a start with policy overrides, and starts with a bad path or a bad format
Starts ==
    { StartArgs("dir", "json", NoPath, {}, TRUE, FilterTraceAll),
      StartArgs("dir", "json", Program, {}, TRUE, FilterTraceAll),
      StartArgs("dir", "json", Program, {}, TRUE, FilterSkipMain),
      StartArgs("dir", "binary", NoPath, {"require_trace"}, FALSE, FilterSkipMain),
      StartArgs("file", "json", NoPath, {}, TRUE, FilterTraceAll),
      StartArgs("dir", "bogus", NoPath, {"require_trace"}, TRUE, FilterTraceAll) }

\* _validate_trace_path: FALSE when it raises ValueError
validate_trace_path(path) == ~(PathKind[path] # "absent" /\ PathKind[path] # "dir")

\* _coerce_format: FALSE when it raises ValueError
coerce_format(format) == format \in SUPPORTED_FORMATS

\* _normalize_activation_path: str(Path(value)) of an absolute path
normalize_activation_path(v) ==
    IF v = NoPath THEN NoPath ELSE <<Slash>> \o JoinPath(SplitPath(v))

\* an API call is recorded: by is the id of the handle whose method was
\* called, 0 for a function of the module
ApiCallBy(op, raised, backend, by) ==
    /\ api' = [op |-> op, raised |-> raised, backend |-> backend, prev |-> api.op,
               by |-> by]
    /\ ncalls' = ncalls + 1

ApiCall(op, raised, backend) == ApiCallBy(op, raised, backend, 0)

Untouched == UNCHANGED <<active_session, sessions, backendVars>>

\* the policy after start() configured it
StartPolicy(pol, apply_env_policy) ==
    With(IF apply_env_policy THEN configure_policy_from_env(policy) ELSE policy,
         LAMBDA p1 : IF pol # {} THEN configure_policy(p1, pol) ELSE p1)

\* a bug variant: start() without the guard against an active session
start_unguarded(path, format, start_on_enter, pol, apply_env_policy, flt) ==
    /\ ncalls < MaxCalls
    /\ IF ~validate_trace_path(path) \/ ~coerce_format(format)
       THEN ApiCall("start", "ValueError", {}) /\ Untouched
       ELSE /\ policy' = StartPolicy(pol, apply_env_policy)
            /\ start_tracing(path, format, normalize_activation_path(start_on_enter), flt)
            /\ \E session \in {[id |-> Len(sessions) + 1, path |-> path,
                                format |-> format]} :
                  /\ sessions' = Append(sessions, session)
                  /\ active_session' = session
            /\ ApiCall("start", "none", {"start_tracing"})
    /\ UNCHANGED OtherParts

\* a bug variant: start() configures the policy before it validates
start_policy_first(path, format, start_on_enter, pol, apply_env_policy, flt) ==
    /\ ncalls < MaxCalls
    /\ IF is_tracing_backend
       THEN ApiCall("start", "RuntimeError", {"is_tracing"}) /\ Untouched
       ELSE IF ~validate_trace_path(path) \/ ~coerce_format(format)
       THEN /\ ApiCall("start", "ValueError", {"is_tracing"})
            /\ policy' = StartPolicy(pol, apply_env_policy)
            /\ UNCHANGED <<active_session, sessions, tracing, gate, scope, bstream,
                           bmeta, durable, frames, parked, entered, ncallbacks, poisoned>>
       ELSE /\ policy' = StartPolicy(pol, apply_env_policy)
            /\ start_tracing(path, format, normalize_activation_path(start_on_enter), flt)
            /\ \E session \in {[id |-> Len(sessions) + 1, path |-> path,
                                format |-> format]} :
                  /\ sessions' = Append(sessions, session)
                  /\ active_session' = session
            /\ ApiCall("start", "none", {"is_tracing", "start_tracing"})
    /\ UNCHANGED OtherParts

\* start(**a) when the backend's start_tracing raises (the trace directory
\* cannot be created or written): the policy has been configured, the
\* exception leaves start() before a handle is made
start_raises(a) ==
    /\ ncalls < MaxCalls
    /\ ~is_tracing_backend
    /\ validate_trace_path(a.path) /\ coerce_format(a.format)
    /\ policy' = StartPolicy(a.policy, a.apply_env_policy)
    /\ ApiCall("start", "RecorderError", {"is_tracing", "start_tracing"})
    /\ UNCHANGED <<active_session, sessions, tracing, gate, scope, bstream, bmeta,
                   durable, frames, parked, entered, ncallbacks, poisoned, OtherParts>>

\* start(path, format=..., start_on_enter=..., policy=..., apply_env_policy=...);
\* flt is the scope filter the backend loads for the session
start(path, format, start_on_enter, pol, apply_env_policy, flt) ==
    /\ ncalls < MaxCalls
    /\ IF is_tracing_backend
       THEN ApiCall("start", "RuntimeError", {"is_tracing"}) /\ Untouched
       ELSE IF ~validate_trace_path(path) \/ ~coerce_format(format)
       THEN ApiCall("start", "ValueError", {"is_tracing"}) /\ Untouched
       ELSE /\ policy' = StartPolicy(pol, apply_env_policy)
            /\ start_tracing(path, format, normalize_activation_path(start_on_enter), flt)
            /\ \E session \in {[id |-> Len(sessions) + 1, path |-> path,
                                format |-> format]} :
                  /\ sessions' = Append(sessions, session)
                  /\ active_session' = session
            /\ ApiCall("start", "none", {"is_tracing", "start_tracing"})
    /\ UNCHANGED OtherParts

\* a bug variant: stop() without the early return
stop_unguarded ==
    /\ ncalls < MaxCalls
    /\ stop_tracing(NoCode)
    /\ active_session' = NoHandle
    /\ ApiCall("stop", "none", {"stop_tracing"})
    /\ UNCHANGED <<sessions, policy, OtherParts>>

\* a bug variant: stop() forgets the handle but leaves the backend running
stop_forgets_backend ==
    /\ ncalls < MaxCalls
    /\ active_session' = NoHandle
    /\ ApiCall("stop", "none", {"is_tracing"})
    /\ UNCHANGED <<sessions, backendVars, OtherParts>>

\* stop(), called as the module's function (by = 0) or by the stop() method
\* of the handle with the id by
stop_by(by) ==
    /\ ncalls < MaxCalls
    /\ IF ~is_tracing_backend
       THEN ApiCallBy("stop", "none", {"is_tracing"}, by) /\ Untouched
       ELSE /\ stop_tracing(NoCode)
            /\ active_session' = NoHandle
            /\ ApiCallBy("stop", "none", {"is_tracing", "stop_tracing"}, by)
            /\ UNCHANGED <<sessions, policy>>
    /\ UNCHANGED OtherParts

\* stop()
stop == stop_by(0)

\* is_tracing()
is_tracing == is_tracing_backend

\* a bug variant: flush() without asking whether a session is active
flush_unguarded ==
    /\ ncalls < MaxCalls
    /\ flush_tracing
    /\ ApiCall("flush", "none", {"flush_tracing"})
    /\ UNCHANGED <<active_session, sessions, policy, OtherParts>>

\* flush(), called as the module's function (by = 0) or by the flush()
\* method of the handle with the id by
flush_by(by) ==
    /\ ncalls < MaxCalls
    /\ IF is_tracing_backend
       THEN flush_tracing /\ ApiCallBy("flush", "none", {"is_tracing", "flush_tracing"}, by)
       ELSE ApiCallBy("flush", "none", {"is_tracing"}, by)
              /\ UNCHANGED <<tracing, gate, scope, bstream, bmeta, durable, frames,
                             parked, entered, ncallbacks, poisoned>>
    /\ UNCHANGED <<active_session, sessions, policy, OtherParts>>

\* flush()
flush == flush_by(0)

\* a bug variant: the handle's stop() never reaches stop()
TraceSession_stop_noop(h) ==
    /\ h \in Range(sessions)
    /\ ncalls < MaxCalls
    /\ ApiCall("TraceSession.stop", "none", {})
    /\ Untouched
    /\ UNCHANGED OtherParts

\* a bug variant: the handle's stop() calls stop() whatever session is active
TraceSession_stop_any(h) ==
    /\ h \in Range(sessions)
    /\ stop_by(h.id)

\* TraceSession.stop() of the handle h
TraceSession_stop(h) ==
    /\ h \in Range(sessions)
    /\ IF active_session = h THEN stop_by(h.id)
       ELSE /\ ncalls < MaxCalls
            /\ ApiCallBy("TraceSession.stop", "none", {}, h.id)
            /\ Untouched
            /\ UNCHANGED OtherParts

\* TraceSession.flush() of the handle h
TraceSession_flush(h) ==
    /\ h \in Range(sessions)
    /\ flush_by(h.id)

\* flush() while tracing, when the backend's flush_tracing() raises (the
\* trace files cannot be written): the exception leaves flush()
flush_raises ==
    /\ ncalls < MaxCalls
    /\ is_tracing_backend
    /\ ApiCall("flush", "RuntimeError", {"is_tracing", "flush_tracing"})
    /\ UNCHANGED <<active_session, sessions, backendVars, OtherParts>>

\* no with-block of trace(...) entered, main not called
NoCtx == [phase |-> "outside", session |-> NoHandle, raised |-> FALSE]
OldArgv == <<"-m">>
NoArgs == [help |-> FALSE, bad_format |-> FALSE, propagate |-> FALSE,
           script |-> "none", policy |-> {}]
NoOutcome == [kind |-> "none", is_int |-> FALSE, is_none |-> FALSE, code |-> 0]
NoCli == [pc |-> "idle", argv |-> OldArgv, result |-> NoCode, args |-> NoArgs,
          outcome |-> NoOutcome, ran |-> FALSE, flush_raised |-> FALSE]
NoCallers == ctx = NoCtx /\ cli = NoCli

\* check_trace_balance not run
NoResult == [error |-> FALSE, call_count |-> 0, return_count |-> 0,
             active_calls |-> 0, first_negative_index |-> NoCode]
NoBalance ==
    /\ trace_file = [kind |-> "absent", root |-> <<>>]
    /\ balance = [op |-> "none", rc |-> NoCode, raised |-> "none", out |-> {},
                  result |-> NoResult]

\* the module imported, no session started yet
NoSession ==
    /\ active_session = NoHandle /\ sessions = <<>>
    /\ api = [op |-> "import", raised |-> "none", backend |-> {}, prev |-> "import",
              by |-> 0]
    /\ ncalls = 0
    /\ tracing = FALSE /\ policy = InitialPolicy
    /\ gate = new_gate(NoPath) /\ scope = FilterTraceAll
    /\ bstream = <<>> /\ bmeta = NoMeta /\ durable = 0
    /\ frames = <<>> /\ parked = {} /\ entered = {} /\ ncallbacks = 0
    /\ poisoned = FALSE

\* the monitored program: library code that runs first, the script, a generator
SessionCodes == {"O", "M", "G"}
SessionRetVals == {IntV(1)}

InitSession == NoTracer /\ NoSession /\ NoLedger /\ NoCallers /\ NoBalance

NextSession ==
    \/ \E a \in Starts :
          /\ start(a.path, a.format, a.start_on_enter, a.policy, a.apply_env_policy, a.flt)
          /\ UNCHANGED callerVars
    \/ \E a \in Starts : start_raises(a) /\ UNCHANGED callerVars
    \/ stop /\ UNCHANGED callerVars
    \/ flush /\ UNCHANGED callerVars
    \/ \E h \in Range(sessions) : TraceSession_stop(h) /\ UNCHANGED callerVars
    \/ \E h \in Range(sessions) : TraceSession_flush(h) /\ UNCHANGED callerVars
    \/ \E c \in SessionCodes : cb_start(c)
    \/ cb_line
    \/ \E val \in SessionRetVals : cb_return(val)
    \/ cb_unwind
    \/ cb_yield
    \/ \E g \in parked : cb_resume(g)

SpecSession == InitSession /\ [][NextSession]_vars

----------------------------------------------------------------------------
(* session.py: start() called by two threads at once.  start() takes no    *)
(* lock of its own, and the interpreter may switch threads between any two *)
(* of its statements; each call of the backend is one step.  The backend's *)
(* start_tracing enforces the singleton under its initialization mutex.    *)

\* a bug variant: the backend's start_tracing does not enforce the singleton
already_tracing_unchecked == FALSE

\* the test of the backend's start_tracing, made under its initialization
\* mutex: a session exists already
already_tracing == tracing

OutsideStart == <<tracerVars, interpVars, thread, ledgerVars, callerVars, balanceVars>>

\* thread t calls start(**a): `if _is_tracing_backend(): raise RuntimeError(...)`
start_guard(t, a) ==
    /\ starters[t].pc = "idle"
    /\ starters' = [starters EXCEPT ![t] =
                       IF is_tracing_backend
                       THEN [@ EXCEPT !.pc = "raised", !.args = a, !.raised = "RuntimeError"]
                       ELSE [@ EXCEPT !.pc = "guarded", !.args = a]]
    /\ UNCHANGED <<sessionVars, backendVars, OutsideStart>>

\* _validate_trace_path, _coerce_format, _normalize_activation_path and the
\* policy configuration
start_configure(t) ==
    /\ starters[t].pc = "guarded"
    /\ \E a \in {starters[t].args} :
          IF ~validate_trace_path(a.path) \/ ~coerce_format(a.format)
          THEN /\ starters' = [starters EXCEPT ![t] =
                                  [@ EXCEPT !.pc = "raised", !.raised = "ValueError"]]
               /\ UNCHANGED policy
          ELSE /\ starters' = [starters EXCEPT ![t] = [@ EXCEPT !.pc = "configured"]]
               /\ policy' = StartPolicy(a.policy, a.apply_env_policy)
    /\ UNCHANGED <<sessionVars, tracing, gate, scope, bstream, bmeta, durable, frames,
                   parked, entered, ncallbacks, poisoned, OutsideStart>>

\* _start_backend(...): it raises when a session exists already
start_backend(t) ==
    /\ starters[t].pc = "configured"
    /\ IF already_tracing
       THEN /\ starters' = [starters EXCEPT ![t] =
                               [@ EXCEPT !.pc = "raised", !.raised = "RecorderError"]]
            /\ UNCHANGED <<tracing, gate, scope, bstream, bmeta, durable, frames,
                           parked, entered, ncallbacks, poisoned>>
       ELSE /\ starters' = [starters EXCEPT ![t] = [@ EXCEPT !.pc = "started"]]
            /\ \E a \in {starters[t].args} :
                  start_tracing(a.path, a.format,
                                normalize_activation_path(a.start_on_enter), a.flt)
    /\ UNCHANGED <<sessionVars, policy, OutsideStart>>

\* session = TraceSession(...); _active_session = session; return session
start_return(t) ==
    /\ starters[t].pc = "started"
    /\ \E session \in {[id |-> Len(sessions) + 1, path |-> starters[t].args.path,
                         format |-> starters[t].args.format]} :
          /\ sessions' = Append(sessions, session)
          /\ active_session' = session
          /\ starters' = [starters EXCEPT ![t] =
                             [@ EXCEPT !.pc = "returned", !.id = session.id]]
    /\ UNCHANGED <<api, ncalls, backendVars, OutsideStart>>

\* the arguments of the racing calls: good ones, and a path that is a file
RaceStarts ==
    { StartArgs("dir", "json", NoPath, {}, TRUE, FilterTraceAll),
      StartArgs("dir", "json", Program, {"require_trace"}, FALSE, FilterSkipMain),
      StartArgs("file", "json", NoPath, {}, TRUE, FilterTraceAll) }

NextRace ==
    \/ \E t \in StartThreads, a \in RaceStarts : start_guard(t, a)
    \/ \E t \in StartThreads : start_configure(t)
    \/ \E t \in StartThreads : start_backend(t)
    \/ \E t \in StartThreads : start_return(t)

SpecRace == InitSession /\ [][NextRace]_vars

----------------------------------------------------------------------------
(* session.py: the context manager trace(...).  The with-statement calls    *)
(* the generator up to its yield (start), runs the body, and resumes the    *)
(* generator at the end of the body, normally or by throwing the body's     *)
(* exception into it (the finally clause: session.stop()).                  *)

\* the arguments trace() is called with: a good trace directory, and a path
\* that is a file, for which start() raises
TraceArgs ==
    { [path |-> "dir", format |-> "json", policy |-> {}, apply_env_policy |-> TRUE],
      [path |-> "file", format |-> "json", policy |-> {}, apply_env_policy |-> TRUE] }

\* with trace(path, ...) as session: start() is called; if it raises, the
\* exception leaves trace() and the body does not run
trace_enter(a) ==
    /\ ctx.phase = "outside"
    /\ start(a.path, a.format, NoPath, a.policy, a.apply_env_policy, FilterTraceAll)
    /\ ctx' = IF api'.raised = "none"
              THEN [phase |-> "body", session |-> active_session', raised |-> FALSE]
              ELSE ctx
    /\ UNCHANGED cli

\* the body ends, normally or (exc) by raising: the finally clause calls
\* session.stop(), then the body's exception propagates
trace_exit(exc) ==
    /\ ctx.phase = "body"
    /\ TraceSession_stop(ctx.session)
    /\ ctx' = [ctx EXCEPT !.phase = "left", !.raised = exc]
    /\ UNCHANGED cli

InitScoped == NoTracer /\ NoSession /\ NoLedger /\ NoCallers /\ NoBalance

\* the with-statement, and what the program does inside and outside its
\* body: API calls of its own and code that the backend monitors
NextScoped ==
    \/ \E a \in TraceArgs : trace_enter(a)
    \/ \E exc \in BOOLEAN : trace_exit(exc)
    \/ \E a \in TraceArgs :
          /\ start(a.path, a.format, NoPath, a.policy, a.apply_env_policy, FilterTraceAll)
          /\ UNCHANGED callerVars
    \/ stop /\ UNCHANGED callerVars
    \/ flush /\ UNCHANGED callerVars
    \/ \E h \in Range(sessions) : TraceSession_stop(h) /\ UNCHANGED callerVars
    \/ \E c \in SessionCodes : cb_start(c)
    \/ cb_line
    \/ \E val \in SessionRetVals : cb_return(val)

SpecScoped == InitScoped /\ [][NextScoped]_vars

----------------------------------------------------------------------------
(* The error policy 'disable' of the backend: a fault of the writer does   *)
(* not end the process; the session is poisoned: the trace so far is       *)
(* finalized as it is, no new event appears, and the session stays until   *)
(* stop finalizes it.                                                      *)

\* a bug variant: the fault ends the backend's session on its own
recorder_fault_stops ==
    /\ tracing /\ ~poisoned
    /\ poisoned' = TRUE
    /\ tracing' = FALSE
    /\ bstream' = close_open_frames(bstream, frames)
    /\ frames' = Forgotten(frames)
    /\ parked' = {[g EXCEPT !.rec = FALSE] : g \in parked}
    /\ UNCHANGED <<sessionVars, policy, gate, scope, bmeta, durable, entered,
                   ncallbacks, OtherParts, callerVars>>

\* a fault while the policy is 'disable'
recorder_fault ==
    /\ tracing /\ ~poisoned
    /\ poisoned' = TRUE
    /\ bstream' = close_open_frames(bstream, frames)
    /\ frames' = Forgotten(frames)
    /\ parked' = {[g EXCEPT !.rec = FALSE] : g \in parked}
    /\ UNCHANGED <<sessionVars, tracing, policy, gate, scope, bmeta, durable, entered,
                   ncallbacks, OtherParts, callerVars>>

NextPolicy ==
    \/ NextScoped
    \/ recorder_fault

SpecPolicy == InitScoped /\ [][NextPolicy]_vars

----------------------------------------------------------------------------
(* codetracer_python_recorder/__main__.py: main(argv)                       *)

\* a command line: whether it holds -h, whether --codetracer-format has a
\* value outside its choices, whether the option --propagate-script-exit
\* (which the parser does not define) precedes the script, what the script
\* token names ("none": no token), and the policy options given
CliArgs(help, bad_format, propagate, script, pol) ==
    [help |-> help, bad_format |-> bad_format, propagate |-> propagate,
     script |-> script, policy |-> pol]

Argvs ==
    { CliArgs(FALSE, FALSE, FALSE, "file", {}),
      CliArgs(FALSE, FALSE, FALSE, "file", {"require_trace"}),
      CliArgs(FALSE, FALSE, FALSE, "none", {}),
      CliArgs(FALSE, FALSE, FALSE, "missing", {}),
      CliArgs(FALSE, FALSE, FALSE, "dir", {}),
      CliArgs(TRUE,  FALSE, FALSE, "none", {}),
      CliArgs(FALSE, TRUE,  FALSE, "none", {}),
      CliArgs(FALSE, FALSE, TRUE,  "file", {}) }

\* parser.parse_known_args(argv)[1]: the tokens the parser does not know, in
\* order: unrecognised options, the script, the script's arguments
unknown(a) ==
    (IF a.propagate THEN <<"--propagate-script-exit">> ELSE <<>>)
        \o (IF a.script = "none" THEN <<>> ELSE <<a.script, "arg">>)

\* Path(token).exists()
exists(token) == token \in {"file", "dir"}

\* a bug variant: the script token is not looked up
script_given_unchecked(a) == unknown(a) # <<>>

\* the negation of the test of line 98
script_given(a) == unknown(a) # <<>> /\ exists(unknown(a)[1])

\* how the script run by runpy.run_path ends: it returns, it raises
\* SystemExit with an int code, with the code None (sys.exit()) or with a
\* code that is neither (a message), or it raises another exception
Outcomes ==
    { [kind |-> "return", is_int |-> FALSE, is_none |-> FALSE, code |-> 0],
      [kind |-> "exit",   is_int |-> TRUE,  is_none |-> FALSE, code |-> 3],
      [kind |-> "exit",   is_int |-> TRUE,  is_none |-> FALSE, code |-> 0],
      [kind |-> "exit",   is_int |-> FALSE, is_none |-> TRUE,  code |-> 0],
      [kind |-> "exit",   is_int |-> FALSE, is_none |-> FALSE, code |-> 0],
      [kind |-> "raise",  is_int |-> FALSE, is_none |-> FALSE, code |-> 0] }

\* main up to runpy.run_path: configure_policy_from_env, parse_known_args
\* (which exits by itself for -h and for an invalid option value), the
\* usage test, configure_policy, sys.argv, start()
main_begin(a) ==
    /\ cli.pc = "idle"
    /\ IF a.help \/ a.bad_format
       THEN /\ cli' = [cli EXCEPT !.pc = "exited", !.args = a,
                                  !.result = IF a.help THEN 0 ELSE 2]
            /\ policy' = configure_policy_from_env(policy)
            /\ UNCHANGED <<active_session, sessions, api, ncalls, tracing, gate, scope,
                           bstream, bmeta, durable, frames, parked, entered, ncallbacks, poisoned,
                           OtherParts>>
       ELSE IF ~script_given(a)
       THEN /\ cli' = [cli EXCEPT !.pc = "returned", !.args = a, !.result = 2]
            /\ policy' = configure_policy_from_env(policy)
            /\ UNCHANGED <<active_session, sessions, api, ncalls, tracing, gate, scope,
                           bstream, bmeta, durable, frames, parked, entered, ncallbacks, poisoned,
                           OtherParts>>
       ELSE /\ start("dir", "binary", Program, a.policy, TRUE, FilterTraceAll)
            /\ cli' = [cli EXCEPT !.pc = IF api'.raised = "none" THEN "script" ELSE "raised",
                                  !.args = a,
                                  !.argv = unknown(a)]
    /\ UNCHANGED ctx

\* main when start() raises because the backend cannot start the session:
\* sys.argv has been assigned, start() is called before the try statement, so
\* the exception leaves main without passing the finally clause
main_start_raises(a) ==
    /\ cli.pc = "idle"
    /\ ~a.help /\ ~a.bad_format /\ script_given(a)
    /\ start_raises(StartArgs("dir", "binary", Program, a.policy, TRUE, FilterTraceAll))
    /\ cli' = [cli EXCEPT !.pc = "raised", !.args = a, !.argv = unknown(a)]
    /\ UNCHANGED ctx

\* runpy.run_path ended with outcome o; the finally clause begins:
\* session.flush(), which returns or, if fails, raises
main_flush(o, fails) ==
    /\ cli.pc = "script"
    /\ IF fails THEN active_session \in Range(sessions) /\ flush_raises
                ELSE TraceSession_flush(active_session)
    /\ cli' = [cli EXCEPT !.pc = "flushed", !.outcome = o, !.ran = TRUE,
                          !.flush_raised = fails]
    /\ UNCHANGED ctx

\* how main ends after the finally clause: an exception of flush() or of the
\* script leaves main, else main returns
LeavesBy(c) == IF c.flush_raised \/ c.outcome.kind = "raise" THEN "raised" ELSE "returned"
ReturnCode(c) ==
    IF c.flush_raised THEN NoCode
    ELSE CASE c.outcome.kind = "return" -> 0
           [] c.outcome.kind = "exit" -> IF c.outcome.is_int THEN c.outcome.code ELSE 1
           [] OTHER -> NoCode

\* a bug variant: stop() is skipped when session.flush() raised
main_stop_unless_flush_raised ==
    /\ cli.pc = "flushed"
    /\ IF cli.flush_raised
       THEN UNCHANGED <<sessionVars, backendVars, OtherParts>>
       ELSE stop
    /\ cli' = [cli EXCEPT !.argv = OldArgv, !.pc = LeavesBy(cli), !.result = ReturnCode(cli)]
    /\ UNCHANGED ctx

\* the rest of the finally clause, stop() and sys.argv = old_argv, and then
\* main's return: 0, or the code of SystemExit if it is an int and else 1;
\* an exception of flush() or another exception of the script leaves main
main_stop ==
    /\ cli.pc = "flushed"
    /\ stop
    /\ cli' = [cli EXCEPT !.argv = OldArgv, !.pc = LeavesBy(cli), !.result = ReturnCode(cli)]
    /\ UNCHANGED ctx

InitCli == NoTracer /\ NoSession /\ NoLedger /\ NoCallers /\ NoBalance

NextCli ==
    \/ \E a \in Argvs : main_begin(a)
    \/ \E a \in Argvs : main_start_raises(a)
    \/ \E o \in Outcomes, fails \in BOOLEAN : main_flush(o, fails)
    \/ main_stop
    \/ \E c \in SessionCodes : cb_start(c)
    \/ cb_line
    \/ \E val \in SessionRetVals : cb_return(val)
    \/ cb_unwind

SpecCli == InitCli /\ [][NextCli]_vars

----------------------------------------------------------------------------
(* codetracer_python_recorder/trace_balance.py and                          *)
(* scripts/check_trace_balance.py                                           *)

\* the elements of the JSON array of a trace file: an object with a Call
\* key, with a Return key, with neither (a Step), with both, and an element
\* that is no object (a number)
Elements == {"Call", "Return", "Step", "Both", "Number"}

IsObject(e) == e # "Number"

\* the keys of an element that is an object
Keys(e) == CASE e = "Call" -> {"Call"} [] e = "Return" -> {"Return"}
             [] e = "Both" -> {"Call", "Return"} [] OTHER -> {"Step"}

\* what is at the path given to the tool: nothing, something that cannot be
\* read (a directory), bytes that are not UTF-8, text that is not JSON, a
\* JSON object, or a JSON array of at most MaxEvents elements
TraceFiles ==
    {[kind |-> k, root |-> <<>>] :
        k \in {"absent", "unreadable", "undecodable", "invalid_json", "object"}}
    \cup {[kind |-> "array", root |-> r] :
             r \in UNION {[1..n -> Elements] : n \in 0..MaxEvents}}

\* load_trace_events: which exception it raises ("none": it returns root)
load_trace_events(file) ==
    CASE file.kind \in {"absent", "unreadable", "invalid_json", "object"}
            -> [raised |-> "TraceBalanceError", events |-> <<>>]
      [] file.kind = "undecodable"
            -> [raised |-> "UnicodeDecodeError", events |-> <<>>]
      [] OTHER
            -> IF \E i \in 1..Len(file.root) : ~IsObject(file.root[i])
               THEN [raised |-> "TraceBalanceError", events |-> <<>>]
               ELSE [raised |-> "none", events |-> file.root]

\* the loop of summarize_trace_balance from the event at index (0-based) on;
\* error: TraceBalanceError was raised
RECURSIVE summarize_loop(_, _, _)
summarize_loop(evs, index, acc) ==
    IF index >= Len(evs) THEN acc
    ELSE With("Call" \in Keys(evs[index + 1]), LAMBDA is_call :
         With("Return" \in Keys(evs[index + 1]), LAMBDA is_return :
              IF is_call /\ is_return THEN [acc EXCEPT !.error = TRUE]
              ELSE With(IF is_call
                        THEN [acc EXCEPT !.call_count = @ + 1, !.active_calls = @ + 1]
                        ELSE acc, LAMBDA a1 :
                   With(IF is_return
                        THEN [a1 EXCEPT !.return_count = @ + 1, !.active_calls = @ - 1,
                                        !.first_negative_index =
                                            IF a1.active_calls - 1 < 0 /\ @ = NoCode
                                            THEN index ELSE @]
                        ELSE a1, LAMBDA a2 :
                        summarize_loop(evs, index + 1, a2)))))

\* a bug variant: underflow is not tracked
summarize_counts_only(evs) ==
    [summarize_loop(evs, 0, NoResult) EXCEPT !.first_negative_index = NoCode]

\* a bug variant: a later underflow overwrites first_negative_index
summarize_last_underflow(evs) ==
    With({i \in 0..(Len(evs) - 1) :
             summarize_loop(SubSeq(evs, 1, i + 1), 0, NoResult).active_calls < 0},
         LAMBDA under :
            [summarize_loop(evs, 0, NoResult) EXCEPT !.first_negative_index =
                IF under = {} THEN NoCode
                ELSE CHOOSE i \in under : \A j \in under : j <= i])

\* summarize_trace_balance
summarize_trace_balance(evs) == summarize_loop(evs, 0, NoResult)

\* TraceBalanceResult.is_balanced and .delta
is_balanced(r) == r.call_count = r.return_count /\ r.first_negative_index = NoCode
delta(r) == r.call_count - r.return_count

\* what check_trace_balance prints when the trace is unbalanced
Report(r) ==
    {<<"Unbalanced", 0>>}
        \cup (IF delta(r) > 0 THEN {<<"Missing", delta(r)>>} ELSE {})
        \cup (IF delta(r) < 0 THEN {<<"Unexpected", 0 - delta(r)>>} ELSE {})
        \cup (IF r.first_negative_index # NoCode
              THEN {<<"FirstUnmatched", r.first_negative_index>>} ELSE {})

\* a test or another tool calls summarize_trace_balance on a sequence of
\* events (mappings)
Summarize ==
    /\ balance.op = "none"
    /\ trace_file.kind = "array"
    /\ \A i \in 1..Len(trace_file.root) : IsObject(trace_file.root[i])
    /\ \E r \in {summarize_trace_balance(trace_file.root)} :
          balance' = [op |-> "summarize", rc |-> NoCode,
                      raised |-> IF r.error THEN "TraceBalanceError" ELSE "none",
                      out |-> {}, result |-> r]
    /\ UNCHANGED <<trace_file, tracerVars, interpVars, threadVars, sessionVars,
                   backendVars, ledgerVars, callerVars>>

\* sys.exit(main()) of check_trace_balance.py; rc is the exit status of the
\* process, which is 1 when an exception leaves main
CheckTraceBalance ==
    /\ balance.op = "none"
    /\ \E l \in {load_trace_events(trace_file)} :
       \E r \in {IF l.raised = "none" THEN summarize_trace_balance(l.events)
                  ELSE NoResult} :
          balance' =
             IF l.raised = "TraceBalanceError" \/ r.error
             THEN [op |-> "main", rc |-> 2, raised |-> "none", out |-> {<<"error", 0>>},
                   result |-> NoResult]
             ELSE IF l.raised # "none"
             THEN [op |-> "main", rc |-> 1, raised |-> l.raised, out |-> {},
                   result |-> NoResult]
             ELSE IF is_balanced(r)
             THEN [op |-> "main", rc |-> 0, raised |-> "none",
                   out |-> {<<"Balanced", r.call_count>>}, result |-> r]
             ELSE [op |-> "main", rc |-> 1, raised |-> "none", out |-> Report(r),
                   result |-> r]
    /\ UNCHANGED <<trace_file, tracerVars, interpVars, threadVars, sessionVars,
                   backendVars, ledgerVars, callerVars>>

InitBalance ==
    /\ NoTracer /\ NoSession /\ NoLedger /\ NoCallers
    /\ trace_file \in TraceFiles
    /\ balance = [op |-> "none", rc |-> NoCode, raised |-> "none", out |-> {},
                  result |-> NoResult]

NextBalance ==
    \/ Summarize
    \/ CheckTraceBalance

SpecBalance == InitBalance /\ [][NextBalance]_vars

----------------------------------------------------------------------------
(* design-docs/prototypes/io_capture_ledger_mirror_prototype.py             *)

\* os.read(fd, 1024) in FdMirror.run
ReadSize == 1024

Min(x, y) == IF x < y THEN x ELSE y

\* what the proxy workers and the native workers write
ProxyTexts == { <<"a", "b">> }
NativeTexts == { <<"a">>, <<"c">> }
ProxyThreads == {1, 2}

\* LedgerEntry.remaining
remaining(entry) == SubSeq(entry.data, entry.offset + 1, Len(entry.data))

\* a consume that forgets to advance the offset
consume_keeps_offset(entry, size) == entry

\* LedgerEntry.consume: the entry afterwards
consume(entry, size) == [entry EXCEPT !.offset = @ + size]

\* LedgerEntry.is_spent
is_spent(entry) == entry.offset >= Len(entry.data)

\* a bug variant: the head entry is popped whether it is spent or not
AfterConsume_pops(ents, size) == Tail(ents)

\* the deque after the head entry consumed size bytes: popped when spent
AfterConsume(ents, size) ==
    With(consume(Head(ents), size), LAMBDA entry :
         IF is_spent(entry) THEN Tail(ents) ELSE <<entry>> \o Tail(ents))

\* a bug variant: the whole data of the entry is reported as consumed
consumed_whole(entry, size) == <<entry.seq, entry.data>>

\* what is appended to matched: (entry.seq, the bytes entry.consume returns)
consumed(entry, size) ==
    <<entry.seq, SubSeq(entry.data, entry.offset + 1, entry.offset + size)>>

\* the while loop of Ledger.subtract_from_chunk; idx counts from 1
RECURSIVE subtract_loop(_, _, _, _, _)
subtract_loop(ents, view, idx, leftover, matched) ==
    IF idx > Len(view) THEN [entries |-> ents, leftover |-> leftover, matched |-> matched]
    ELSE IF ents = <<>>
    THEN [entries |-> ents, leftover |-> leftover \o SubSeq(view, idx, Len(view)),
          matched |-> matched]
    ELSE With(remaining(Head(ents)), LAMBDA rem :
         With(SubSeq(view, idx, Len(view)), LAMBDA tail :
              IF rem = <<>> THEN subtract_loop(Tail(ents), view, idx, leftover, matched)
              ELSE IF view[idx] # rem[1]
              THEN With(Append(leftover, view[idx]), LAMBDA l1 :
                        subtract_loop(ents, view, idx + 1, l1, matched))
              ELSE IF Len(rem) <= Len(tail) /\ SubSeq(tail, 1, Len(rem)) = rem
              THEN With(AfterConsume(ents, Len(rem)), LAMBDA e1 :
                   With(Append(matched, consumed(Head(ents), Len(rem))), LAMBDA m1 :
                        subtract_loop(e1, view, idx + Len(rem), leftover, m1)))
              ELSE IF tail = SubSeq(rem, 1, Min(Len(tail), Len(rem)))
              THEN [entries |-> AfterConsume(ents, Len(tail)), leftover |-> leftover,
                    matched |-> Append(matched, consumed(Head(ents), Len(tail)))]
              ELSE With(Append(leftover, view[idx]), LAMBDA l1 :
                        subtract_loop(ents, view, idx + 1, l1, matched))))

\* Ledger.subtract_from_chunk: the ledger afterwards, the leftover and the
\* matched (seq, bytes) pairs
subtract_from_chunk(ents, chunk) ==
    IF chunk = <<>> THEN [entries |-> ents, leftover |-> <<>>, matched |-> <<>>]
    ELSE subtract_loop(ents, chunk, 1, <<>>, <<>>)

\* sum(len(bytes_) for _, bytes_ in matched)
RECURSIVE matched_len(_)
matched_len(matched) ==
    IF matched = <<>> THEN 0 ELSE Len(Head(matched)[2]) + matched_len(Tail(matched))

OutsideLedger == <<tracerVars, interpVars, threadVars, sessionVars, backendVars,
                   callerVars, balanceVars>>

\* Ledger.pending_bytes
RECURSIVE pending_bytes(_)
pending_bytes(ents) ==
    IF ents = <<>> THEN 0
    ELSE Len(remaining(Head(ents))) + pending_bytes(Tail(ents))

\* a write that records its proxy event ahead of the earlier ones
ProxyStdout_write_front(t, text) ==
    /\ nwrites < MaxWrites
    /\ ~closed
    /\ writer = <<>>
    /\ text # <<>>
    /\ entries' = Append(entries, [seq |-> next_seq, data |-> text, offset |-> 0])
    /\ next_seq' = next_seq + 1
    /\ proxy_events' = <<[thread |-> t, seq |-> next_seq, bytes |-> text]>> \o proxy_events
    /\ writer' = <<[thread |-> t, seq |-> next_seq, data |-> text]>>
    /\ nwrites' = nwrites + 1
    /\ UNCHANGED <<pipe, native_payload, mirror_payload, piped, closed, mirror,
                   OutsideLedger>>

\* ProxyStdout.write up to os.write: the lock is taken, the payload pushed
\* on the ledger (Ledger.push) and the proxy event appended
ProxyStdout_write(t, text) ==
    /\ nwrites < MaxWrites
    /\ ~closed
    /\ writer = <<>>
    /\ text # <<>>
    /\ entries' = Append(entries, [seq |-> next_seq, data |-> text, offset |-> 0])
    /\ next_seq' = next_seq + 1
    /\ proxy_events' = Append(proxy_events, [thread |-> t, seq |-> next_seq, bytes |-> text])
    /\ writer' = <<[thread |-> t, seq |-> next_seq, data |-> text]>>
    /\ nwrites' = nwrites + 1
    /\ UNCHANGED <<pipe, native_payload, mirror_payload, piped, closed, mirror,
                   OutsideLedger>>

\* the rest of ProxyStdout.write: os.write to the pipe, the lock released
ProxyStdout_os_write ==
    /\ writer # <<>>
    /\ pipe' = pipe \o writer[1].data
    /\ piped' = Append(piped, writer[1].seq)
    /\ writer' = <<>>
    /\ UNCHANGED <<entries, next_seq, proxy_events, native_payload, mirror_payload,
                   nwrites, closed, mirror, OutsideLedger>>

\* native_worker: os.write straight to the pipe
native_worker(text) ==
    /\ nwrites < MaxWrites
    /\ ~closed
    /\ pipe' = pipe \o text
    /\ native_payload' = native_payload \o text
    /\ nwrites' = nwrites + 1
    /\ UNCHANGED <<entries, next_seq, writer, proxy_events, mirror_payload,
                   piped, closed, mirror, OutsideLedger>>

\* ProxyStdout.close, which run_trial calls once the workers are joined:
\* the write end of the pipe is closed
ProxyStdout_close ==
    /\ ~closed
    /\ writer = <<>>
    /\ closed' = TRUE
    /\ UNCHANGED <<entries, next_seq, pipe, writer, proxy_events, native_payload,
                   mirror_payload, nwrites, piped, mirror, OutsideLedger>>

\* an os.read that returns b"" whenever the pipe is empty
AtEof_ignores_close == pipe = <<>>

\* os.read returns b"" : the pipe is empty and its write end is closed
\* (while the write end is open, os.read on an empty pipe blocks)
AtEof == closed /\ pipe = <<>>

\* one round of FdMirror.run: os.read returns the first n bytes of the pipe
FdMirror_run(n) ==
    /\ ~mirror.done
    /\ n \in 1..Min(Len(pipe), ReadSize)
    /\ \E r \in {subtract_from_chunk(entries, SubSeq(pipe, 1, n))} :
          /\ entries' = r.entries
          /\ mirror_payload' = mirror_payload \o r.leftover
          /\ mirror' = [mirror EXCEPT !.total_bytes = @ + n,
                                      !.matched_bytes = @ + matched_len(r.matched),
                                      !.matched = @ \o r.matched]
    /\ pipe' = SubSeq(pipe, n + 1, Len(pipe))
    /\ UNCHANGED <<next_seq, writer, proxy_events, native_payload, nwrites,
                   piped, closed, OutsideLedger>>

\* FdMirror.run reads b"", breaks out of the loop, and the finally clause
\* sets _done
FdMirror_eof ==
    /\ ~mirror.done
    /\ AtEof
    /\ mirror' = [mirror EXCEPT !.done = TRUE]
    /\ UNCHANGED <<entries, next_seq, pipe, writer, proxy_events, native_payload,
                   mirror_payload, nwrites, piped, closed, OutsideLedger>>

\* an exception inside the try block of FdMirror.run, before the ledger is
\* touched: the finally clause sets _done and the thread ends
FdMirror_raise ==
    /\ ~mirror.done
    /\ mirror' = [mirror EXCEPT !.done = TRUE, !.raised = TRUE]
    /\ UNCHANGED <<entries, next_seq, pipe, writer, proxy_events, native_payload,
                   mirror_payload, nwrites, piped, closed, OutsideLedger>>

InitLedger == NoTracer /\ NoSession /\ NoLedger /\ NoCallers /\ NoBalance

NextLedger ==
    \/ \E t \in ProxyThreads, text \in ProxyTexts : ProxyStdout_write(t, text)
    \/ ProxyStdout_os_write
    \/ \E text \in NativeTexts : native_worker(text)
    \/ \E n \in 1..Len(pipe) : FdMirror_run(n)
    \/ ProxyStdout_close
    \/ FdMirror_eof
    \/ FdMirror_raise

SpecLedger == InitLedger /\ [][NextLedger]_vars

\* the mirror thread is scheduled again and again: a read that can return
\* returns
SpecMirror ==
    /\ SpecLedger
    /\ WF_vars(\E n \in 1..Len(pipe) : FdMirror_run(n))
    /\ WF_vars(FdMirror_eof)

\* Tracer(program) constructed, sys.settrace installed, runpy about to run
InitTracer ==
    /\ events = TracerInit.events
    /\ paths = TracerInit.paths
    /\ path_map = TracerInit.path_map
    /\ var_map = TracerInit.var_map
    /\ functions = TracerInit.functions
    /\ types = TracerInit.types
    /\ stack = <<>>
    /\ suspended = {}
    /\ pc = "running"
    /\ files = NoFiles
    /\ steps = 0
    /\ last = [op |-> "init", n |-> 0, traced |-> FALSE, opened |-> -1, code |-> "M",
               locals |-> <<>>, raised |-> "none"]
    /\ out = <<>>
    /\ thread = NoThread
    /\ starters = NoStarters
    /\ NoSession
    /\ NoLedger
    /\ NoCallers
    /\ NoBalance

NextTracer ==
    \/ \E c \in CodeIds : \E a \in ArgsOf(c) : PyCall(c, a) /\ UNCHANGED threadVars
    \/ \E eff \in AllEffects : PyLine(eff) /\ UNCHANGED threadVars
    \/ PyException /\ UNCHANGED threadVars
    \/ \E arg \in RetVals : PyReturn(arg) /\ UNCHANGED threadVars
    \/ PyUnwind /\ UNCHANGED threadVars
    \/ \E arg \in RetVals : PyYield(arg) /\ UNCHANGED threadVars
    \/ \E g \in suspended : PyResume(g) /\ UNCHANGED threadVars
    \/ \E text \in WrittenTexts : PyWrite(text) /\ UNCHANGED threadVars
    \/ WriteFiles /\ UNCHANGED threadVars

SpecTracer == InitTracer /\ [][NextTracer]_vars

----------------------------------------------------------------------------
(* trace.py with a second thread.  sys.settrace traces the main thread      *)
(* only, but sys.stdout is the StdoutInterceptor for every thread, and the  *)
(* interpreter may switch threads between any two bytecodes of a callback.  *)
(* While the main thread is inside a callback, the last thread.pending      *)
(* events of the variable events are those the callback has still to append *)
(* (Tracer.emit); the events before them are the list Tracer.events.        *)

\* Tracer.events as it is now
Appended == SubSeq(events, 1, Len(events) - thread.pending)
ToAppend == SubSeq(events, Len(events) - thread.pending + 1, Len(events))

\* the main thread enters a callback: its emissions are still to come
Entering ==
    /\ thread.pending = 0
    /\ thread' = [thread EXCEPT !.pending = Len(events') - Len(events)]
    /\ UNCHANGED starters

\* the callback of the main thread runs up to its next Tracer.emit
Tracer_emit ==
    /\ thread.pending > 0
    /\ thread' = [thread EXCEPT !.pending = @ - 1]
    /\ UNCHANGED <<tracerVars, interpVars, starters, sessionVars, backendVars,
                   ledgerVars, callerVars, balanceVars>>

\* the second thread calls sys.stdout.write(text): StdoutInterceptor.write
\* appends its Event to Tracer.events
ThreadWrite(text) ==
    /\ pc = "running"
    /\ thread.writes < MaxThreadWrites
    /\ out' = out \o text
    /\ \E T \in {StdoutInterceptor_write([TracerFields EXCEPT !.events = Appended], text)} :
          events' = T.events \o ToAppend
    /\ thread' = [thread EXCEPT !.writes = @ + 1]
    /\ UNCHANGED <<paths, path_map, var_map, functions, types, stack, suspended, pc,
                   files, steps, last, starters, sessionVars, backendVars, ledgerVars,
                   callerVars, balanceVars>>

NextThreads ==
    \/ \E c \in CodeIds : \E a \in ArgsOf(c) : PyCall(c, a) /\ Entering
    \/ \E eff \in AllEffects : PyLine(eff) /\ Entering
    \/ \E arg \in RetVals : PyReturn(arg) /\ Entering
    \/ Tracer_emit
    \/ \E text \in WrittenTexts : ThreadWrite(text)

SpecThreads == InitTracer /\ [][NextThreads]_vars

----------------------------------------------------------------------------
(* Properties of the event stream of trace.py, checked under SpecTracer    *)

Prefix(s, n) == SubSeq(s, 1, n)

\* the events appended by the interpreter event handled last
Since(n) == SubSeq(events, n + 1, Len(events))

\* Calls not yet closed by a Return
OpenCalls(s) == NumTag(s, "Call") - NumTag(s, "Return")

NoPrefixHasMoreReturns(s) == \A n \in 0..Len(s) : OpenCalls(Prefix(s, n)) >= 0

TracedFrames == Cardinality({i \in 1..Len(stack) : stack[i].traced})

Finished == pc \in {"done", "written"}

\* C1: when the traced program has run to its end, the event stream holds as
\* many Return events as Call events, the top-level Call included, and no
\* prefix of the stream holds more Returns than Calls.
C1_CallsEqualReturns ==
    /\ NoPrefixHasMoreReturns(events)
    /\ Finished => NumTag(events, "Return") = NumTag(events, "Call")

\* the Return events of a stream, in order
Returns(s) == SelectSeq(s, LAMBDA e : e.tag = "Return")

IsExitValue(v) ==
    \/ v.kind = "String" /\ v.text = "<exit>"
    \/ v.kind = "Int"

\* C2: when the session has stopped and its files are written, the top-level
\* Call is closed: the stream is balanced, its last Return carries the exit
\* status (the String placeholder "<exit>" when no exit code was given, else
\* Int(code)), and trace_metadata.json holds process_exit_status.
C2_TopLevelReturnCarriesExit ==
    pc = "written" =>
        /\ OpenCalls(files.trace) = 0
        /\ Returns(files.trace) # <<>>
        /\ IsExitValue(Last(Returns(files.trace)).return_value)
        /\ "process_exit_status" \in files.trace_metadata

\* the type ids an encoded value names, nested values included
RECURSIVE TypeIdsOf(_)
TypeIdsOf(enc) ==
    {enc.type_id} \cup
    (IF "elements" \in DOMAIN enc
     THEN UNION {TypeIdsOf(enc.elements[i]) : i \in 1..Len(enc.elements)}
     ELSE IF "field_values" \in DOMAIN enc
     THEN UNION {TypeIdsOf(enc.field_values[i]) : i \in 1..Len(enc.field_values)}
     ELSE {})

\* ids are dense: the k-th defining event of a kind defines id k - 1
Defined(before, tag, id) == id \in 0..(NumTag(before, tag) - 1)

ValueDefined(before, enc) == \A t \in TypeIdsOf(enc) : Defined(before, "Type", t)

UsesDefinedIds(before, e) ==
    CASE e.tag = "Function" -> Defined(before, "Path", e.path_id)
      [] e.tag = "Step"     -> Defined(before, "Path", e.path_id)
      [] e.tag = "Call"     ->
            /\ Defined(before, "Function", e.function_id)
            /\ \A i \in 1..Len(e.args) :
                  /\ Defined(before, "VariableName", e.args[i].variable_id)
                  /\ ValueDefined(before, e.args[i].value)
      [] e.tag = "Value"    ->
            /\ Defined(before, "VariableName", e.variable_id)
            /\ ValueDefined(before, e.value)
      [] e.tag = "Return"   -> ValueDefined(before, e.return_value)
      [] OTHER              -> TRUE

\* C3: every id an event uses is defined by an earlier event of the stream:
\* a Function's and a Step's path_id by a Path event, a Call's function_id by
\* a Function event, every variable_id by a VariableName event, and every
\* type_id of a value, nested values included, by a Type event.
C3_IdsDefinedBeforeUse ==
    \A i \in 1..Len(events) : UsesDefinedIds(Prefix(events, i - 1), events[i])

\* C3 witness: a function of a file not seen before was called with a list
\* argument that holds an object, so that the Call names a new path through
\* its Function, a variable, and nested type ids.
C3_Witness ==
    /\ Len(paths) >= 3
    /\ \E i \in 1..Len(events) :
          /\ events[i].tag = "Call"
          /\ \E j \in 1..Len(events[i].args) :
                /\ events[i].args[j].value.kind = "Sequence"
                /\ Cardinality(TypeIdsOf(events[i].args[j].value)) >= 3

\* C7: a yield of a traced generator frame appends exactly one Return and a
\* resume exactly one Call, which carries the function_id of the Call that
\* opened the frame; no prefix of the stream has more Returns than Calls, and
\* the Calls still open are the top-level Call and one per traced frame on
\* the stack, so a suspended generator is never counted.
C7_YieldResumeBalanced ==
    /\ (last.op = "yield" /\ last.traced) =>
          /\ NumTag(Since(last.n), "Return") = 1
          /\ NumTag(Since(last.n), "Call") = 0
          /\ Last(events).tag = "Return"
    /\ (last.op = "resume" /\ last.traced) =>
          /\ NumTag(Since(last.n), "Call") = 1
          /\ NumTag(Since(last.n), "Return") = 0
          /\ Last(events).tag = "Call"
          /\ Last(events).function_id = last.opened
    /\ NoPrefixHasMoreReturns(events)
    /\ OpenCalls(events) = 1 + TracedFrames

\* C7 witness: a traced generator frame has yielded again after a resume: the
\* stream holds two Calls of its function and the frame is suspended.
C7_Witness ==
    /\ last.op = "yield"
    /\ last.traced
    /\ Cardinality({i \in 1..Len(events) :
                        events[i].tag = "Call" /\ events[i].function_id = last.opened}) >= 2
    /\ suspended # {}

\* C8: a frame that an exception propagates out of appends exactly one Return
\* event, and that Return carries the placeholder Raw("<unwound>").
C8_UnwindReturnsPlaceholder ==
    (last.op = "unwind" /\ last.traced) =>
        /\ NumTag(Since(last.n), "Return") = 1
        /\ Last(events).tag = "Return"
        /\ Last(events).return_value.kind = "Raw"
        /\ Last(events).return_value.r = "<unwound>"

----------------------------------------------------------------------------
(* Properties of the session API, checked under SpecSession                 *)

ApiStep(op) == api'.op = op /\ ncalls' = ncalls + 1

\* C4: start() called while a session is active raises, having asked the
\* backend only whether it is tracing: no backend session is started, the
\* policy is not changed, the session stays active and the active handle is
\* the one it was.
C4_StartWhileActiveFails ==
    [][(ApiStep("start") /\ tracing) =>
          /\ api'.raised = "RuntimeError"
          /\ api'.backend = {"is_tracing"}
          /\ tracing'
          /\ is_tracing'
          /\ active_session' = active_session
          /\ UNCHANGED <<sessions, policy, gate, scope, bstream, bmeta, durable>>]_vars

\* C4 witness: a start() has just failed with RuntimeError while the first
\* session is active.
C4_Witness ==
    /\ api.op = "start"
    /\ api.raised = "RuntimeError"
    /\ tracing
    /\ active_session = sessions[1]

\* C6: stop() raises nothing and leaves is_tracing() false; called while no
\* session is active it changes nothing and does not call the backend's stop.
C6_StopIdempotent ==
    [][ApiStep("stop") =>
          /\ api'.raised = "none"
          /\ ~is_tracing'
          /\ ~tracing =>
                /\ "stop_tracing" \notin api'.backend
                /\ UNCHANGED <<active_session, sessions, backendVars>>]_vars

\* C6 witness: a stop() right after the stop() that ended a session.
C6_Witness ==
    /\ api.op = "stop"
    /\ "stop_tracing" \notin api.backend
    /\ ~tracing
    /\ sessions # <<>>
    /\ ncalls = 3

\* the session's stream as start left it: the <toplevel> Function and its Call
OnlyTopLevel(s) ==
    /\ Len(s) = 2
    /\ s[1].tag = "Function" /\ s[1].name = TopLevelName
    /\ s[2].tag = "Call" /\ s[2].function_id = 0

EnteredActivationPath ==
    \E c \in entered : abspath(Code[c].co_filename) = gate.path

\* C9: with an activation path set, the stream holds no event of user code
\* as long as no function-start of a code object of that file has fired; once
\* it has fired the gate is open, and an open gate stays open until stop.
C9_ActivationGate ==
    /\ [](tracing /\ gate.path # NoPath =>
              /\ ~EnteredActivationPath => ~gate.active /\ OnlyTopLevel(bstream)
              /\ EnteredActivationPath => gate.active)
    /\ [][(tracing /\ gate.active /\ tracing') => gate'.active]_vars

\* C9 witness: library code started before the script and left no event; the
\* script's start opened the gate and its Call and a Step are in the stream.
C9_Witness ==
    /\ tracing
    /\ gate.path = Program
    /\ gate.active
    /\ Len(frames) = 2
    /\ frames[1] = [code |-> "O", rec |-> FALSE]
    /\ frames[2] = [code |-> "M", rec |-> TRUE]
    /\ NumTag(bstream, "Call") = 2
    /\ NumTag(bstream, "Step") = 1

AllEnteredSkipped ==
    /\ entered # {}
    /\ \A c \in entered : filter_exec(scope, c) = "skip"

\* C10: when the filter skips every frame the program entered, the stream
\* holds no Function, Call, Step or Return of a skipped frame: its only
\* Function is <toplevel>, its only Call the top-level Call, and after stop
\* its only Return the one carrying the String placeholder "<exit>".
C10_SkippedFramesLeaveBalancedStream ==
    (bstream # <<>> /\ AllEnteredSkipped) =>
        /\ OnlyTopLevel(Prefix(bstream, 2))
        /\ NumTag(bstream, "Function") = 1
        /\ NumTag(bstream, "Call") = 1
        /\ NumTag(bstream, "Step") = 0
        /\ tracing => NumTag(bstream, "Return") = 0
        /\ ~tracing => /\ NumTag(bstream, "Return") = 1
                       /\ Last(bstream) = ReturnEvent(ExitPlaceholder)

\* C10 witness: a session with the filter on the script's module has stopped
\* after the script's frame started, stepped and returned.
C10_Witness ==
    /\ ~tracing
    /\ scope = FilterSkipMain
    /\ AllEnteredSkipped
    /\ ncallbacks >= 3
    /\ frames = <<>>
    /\ Last(bstream) = ReturnEvent(ExitPlaceholder)

----------------------------------------------------------------------------
(* Properties of the ledger prototype, checked under SpecLedger             *)

\* C5: once the mirror has read everything that was written, the leftovers
\* of its reads, concatenated, are exactly the native bytes in the order
\* they entered the pipe.
C5_LeftoversAreNativeBytes ==
    (pipe = <<>> /\ writer = <<>>) => mirror_payload = native_payload

----------------------------------------------------------------------------
(* Captured stdout of trace.py, checked under SpecTracer                   *)

\* the content payloads of the I/O Event records of a stream, concatenated
RECURSIVE IoContent(_)
IoContent(s) ==
    IF s = <<>> THEN <<>>
    ELSE IF Head(s).tag = "Event" THEN Head(s).content \o IoContent(Tail(s))
    ELSE IoContent(Tail(s))

\* C11: the content payloads of the recorded I/O Event records, concatenated
\* in stream order, equal the text written to stdout: no written character
\* (newlines included) is lost and none is added.
C11_StdoutRoundTrip == IoContent(events) = out

----------------------------------------------------------------------------
(* The id registries of trace.py, checked under SpecTracer                 *)

Injective(f) == \A a, b \in DOMAIN f : f[a] = f[b] => a = b

\* the events of one tag, in stream order
DefsOf(tag) == SelectSeq(events, LAMBDA e : e.tag = tag)

\* ids once assigned stay as they are
KeepsIds(f, g) == \A k \in DOMAIN f : k \in DOMAIN g /\ g[k] = f[k]

\* the file names the traced program's code objects carry, and the names of
\* its variables
InternedPaths == {<<>>} \cup {abspath(Code[c].co_filename) : c \in CodeIds}
InternedNames == {NameA, NameX, ReturnValueName}

EmittedOnce(tag, field, keys) ==
    /\ Len(DefsOf(tag)) = Cardinality(keys)
    /\ \A k \in keys : \E i \in 1..Len(DefsOf(tag)) : DefsOf(tag)[i][field] = k

C12_State ==
    /\ Injective(path_map)
    /\ Injective(var_map)
    /\ EmittedOnce("Path", "path", DOMAIN path_map)
    /\ EmittedOnce("VariableName", "name", DOMAIN var_map)
    /\ \A p \in InternedPaths :
          \E T1 \in {register_path(TracerFields, p)} : register_path(T1, p) = T1
    /\ \A n \in InternedNames :
          \E T1 \in {var_id(TracerFields, n)} : var_id(T1, n) = T1

\* C12: interning of paths and of variable names is idempotent (interning a
\* key again changes nothing: same id, no second definition event), injective
\* (two keys never share an id) and monotonic (no step changes or removes an
\* id that was assigned).
C12_InterningIdempotentInjectiveMonotonic ==
    /\ []C12_State
    /\ [][KeepsIds(path_map, path_map') /\ KeepsIds(var_map, var_map')]_vars

\* C12 witness: a path and a variable name were each interned at least twice
\* (two Steps of one file, two Values of one variable) while other paths and
\* other names are interned as well.
C12_Witness ==
    /\ Cardinality(DOMAIN path_map) >= 2
    /\ Cardinality(DOMAIN var_map) >= 2
    /\ \E i, j \in 1..Len(events) :
          /\ i < j
          /\ events[i].tag = "Step" /\ events[j].tag = "Step"
          /\ events[i].path_id = events[j].path_id
    /\ \E i, j \in 1..Len(events) :
          /\ i < j
          /\ events[i].tag = "Value" /\ events[j].tag = "Value"
          /\ events[i].variable_id = events[j].variable_id

\* C13: ids are dense and equal the position of their definition event: the
\* k-th (0-based) Path event defines path id k and is entry k of the paths
\* array written to trace_paths.json, the k-th VariableName event defines
\* variable id k, the k-th Type event type id k, the k-th Function event
\* function id k.
C13_IdsAreDefinitionPositions ==
    /\ Len(DefsOf("Path")) = Len(paths)
    /\ DOMAIN path_map = Range(paths)
    /\ \A k \in 1..Len(paths) :
          /\ DefsOf("Path")[k].path = paths[k]
          /\ path_map[paths[k]] = k - 1
    /\ pc = "written" => files.trace_paths = [k \in 1..Len(paths) |-> DefsOf("Path")[k].path]
    /\ Len(DefsOf("VariableName")) = Cardinality(DOMAIN var_map)
    /\ \A k \in 1..Len(DefsOf("VariableName")) :
          var_map[DefsOf("VariableName")[k].name] = k - 1
    /\ Len(DefsOf("Type")) = Cardinality(DOMAIN types)
    /\ \A k \in 1..Len(DefsOf("Type")) : types[DefsOf("Type")[k].lang_type] = k - 1
    /\ Len(DefsOf("Function")) = Cardinality(DOMAIN functions)
    /\ \A k \in 1..Len(DefsOf("Function")) :
          \E key \in DOMAIN functions :
             /\ functions[key] = k - 1
             /\ key[2] = DefsOf("Function")[k].line
             /\ key[3] = DefsOf("Function")[k].name
             /\ paths[DefsOf("Function")[k].path_id + 1] = StoredPath(key[1])

\* C13 witness: the trace files were written after the program defined more
\* than the built-in types, a function besides the top level, variables and
\* a second path.
C13_Witness ==
    /\ pc = "written"
    /\ Cardinality(DOMAIN types) > Len(BuiltinTypes)
    /\ Cardinality(DOMAIN functions) >= 2
    /\ var_map # <<>>
    /\ Len(paths) >= 2

\* the kind of the type descriptor Tracer._value gives a value it encodes as
\* enc: the kind it passes to _ensure_type, or registered for the built-in
RecordedKind(enc) ==
    CASE enc.kind = "Bool" -> 12 [] enc.kind = "Int" -> 7 [] enc.kind = "Float" -> 8
      [] enc.kind = "String" -> 9 [] enc.kind = "Raw" -> 16 [] enc.kind = "Sequence" -> 0
      [] enc.kind = "Tuple" -> 27 [] enc.kind = "Struct" -> 6 [] enc.kind = "None" -> 24

\* an encoded value and the encoded values nested in it
RECURSIVE Nested(_)
Nested(enc) ==
    {enc} \cup
    (IF "elements" \in DOMAIN enc
     THEN UNION {Nested(enc.elements[i]) : i \in 1..Len(enc.elements)}
     ELSE IF "field_values" \in DOMAIN enc
     THEN UNION {Nested(enc.field_values[i]) : i \in 1..Len(enc.field_values)}
     ELSE {})

\* the values an event records
ValuesOf(e) ==
    CASE e.tag = "Call"   -> UNION {Nested(e.args[i].value) : i \in 1..Len(e.args)}
      [] e.tag = "Value"  -> Nested(e.value)
      [] e.tag = "Return" -> Nested(e.return_value)
      [] OTHER            -> {}

RecordedValues == UNION {ValuesOf(events[i]) : i \in 1..Len(events)}

\* C14: a type id identifies one type descriptor: two recorded values whose
\* descriptors differ in kind never carry the same type_id, and the Type
\* event that defined a type_id has the kind of every value carrying it.
C14_TypeIdIdentifiesDescriptor ==
    /\ \A v, w \in RecordedValues :
          RecordedKind(v) # RecordedKind(w) => v.type_id # w.type_id
    /\ \A v \in RecordedValues :
          v.type_id + 1 \in 1..Len(DefsOf("Type"))
              => DefsOf("Type")[v.type_id + 1].kind = RecordedKind(v)

----------------------------------------------------------------------------
(* flush() of session.py, checked under SpecSession                        *)

\* the stream and the session as a reader of the trace or a caller of the
\* API can observe them
Observable == <<active_session, sessions, policy, tracing, gate, scope, bstream,
                bmeta, frames, parked, entered, ncallbacks, poisoned>>

\* C15: flush() raises nothing and never adds, removes or reorders events or
\* changes the session; after it everything written is durable, so a flush()
\* that follows a flush() changes nothing at all; with no active session it
\* changes nothing and does not call the backend's flush.
C15_FlushIdempotent ==
    [][ApiStep("flush") =>
          /\ api'.raised = "none"
          /\ UNCHANGED Observable
          /\ tracing => durable' = Len(bstream')
          /\ (tracing => durable = Len(bstream)) => UNCHANGED durable
          /\ ~tracing =>
                /\ "flush_tracing" \notin api'.backend
                /\ UNCHANGED backendVars]_vars

\* C15 witness: a flush() right after a flush() in a session that has
\* recorded events of the program.
C15_Witness ==
    /\ api.op = "flush"
    /\ api.prev = "flush"
    /\ tracing
    /\ Len(bstream) > 2
    /\ durable = Len(bstream)

----------------------------------------------------------------------------
(* The context manager trace(...), checked under SpecScoped                *)

\* the session that trace() started is the active one
ScopedSessionActive == tracing /\ active_session = ctx.session

\* C16: trace(...) scopes a session: entering the body leaves the session it
\* started active; while the body runs only a stop call made by the body
\* itself ends that session; and when the with-block is left, normally or by
\* an exception of the body (which then propagates), that session is stopped.
C16_TraceScopesSession ==
    /\ [](ctx.phase = "left" => ~ScopedSessionActive)
    /\ [][/\ (ctx.phase = "outside" /\ ctx'.phase = "body") => ScopedSessionActive'
          /\ (ctx.phase = "body" /\ ctx'.phase = "body"
                 /\ ScopedSessionActive /\ ~ScopedSessionActive')
                => api'.op = "stop" /\ ncalls' = ncalls + 1
          /\ (ctx.phase = "body" /\ ctx'.phase = "left")
                => /\ ~tracing' \/ active_session' # ctx.session
                   /\ ctx'.session = ctx.session]_vars

\* C16 witness: a with-block was left by an exception of its body while the
\* session trace() started was still the active one and had recorded events
\* of the program; the finally clause stopped it.
C16_Witness ==
    /\ ctx.phase = "left"
    /\ ctx.raised
    /\ api.op = "stop"
    /\ "stop_tracing" \in api.backend
    /\ Len(bstream) > 3
    /\ sessions = <<ctx.session>>

----------------------------------------------------------------------------
(* The command line of the recorder, checked under SpecCli                 *)

\* main ran the script to its end and returned
RecordingSucceeded == cli.pc = "returned" /\ cli.ran

\* C17: when recording succeeded main returns 0, whatever status the script
\* exited with, unless propagation of the script's exit was asked for, in
\* which case it returns the script's exit code.
C17_CliExitStatus ==
    RecordingSucceeded =>
        cli.result = IF cli.args.propagate THEN cli.outcome.code ELSE 0

\* main has ended, by returning or by an exit inside the argument parser
Ended == cli.pc \in {"returned", "exited", "raised"}

\* main returned 2 and did nothing else
UsageError ==
    /\ cli.pc = "returned"
    /\ cli.result = 2
    /\ sessions = <<>> /\ ~tracing /\ ncalls = 0
    /\ ~cli.ran /\ ncallbacks = 0
    /\ cli.argv = OldArgv

----------------------------------------------------------------------------
(* Trace balance, checked under SpecBalance                                *)

\* how many events of evs hold the key
CountKey(evs, key) == Cardinality({i \in 1..Len(evs) : key \in Keys(evs[i])})

\* the same number of Call and Return events, and no prefix with more
\* Return events than Call events
Balanced(evs) ==
    /\ CountKey(evs, "Call") = CountKey(evs, "Return")
    /\ \A n \in 0..Len(evs) :
          CountKey(SubSeq(evs, 1, n), "Return") <= CountKey(SubSeq(evs, 1, n), "Call")

NoneHasBoth(evs) == \A i \in 1..Len(evs) : ~({"Call", "Return"} \subseteq Keys(evs[i]))

\* C19: for an event sequence in which no event has both a Call and a Return
\* key, summarize_trace_balance raises nothing, call_count and return_count
\* are the numbers of Call and of Return events, delta is their difference,
\* and is_balanced holds exactly when the counts are equal and no prefix has
\* more Return events than Call events.
C19_SummarizeTraceBalance ==
    (balance.op = "summarize" /\ NoneHasBoth(trace_file.root)) =>
        /\ balance.raised = "none"
        /\ balance.result.call_count = CountKey(trace_file.root, "Call")
        /\ balance.result.return_count = CountKey(trace_file.root, "Return")
        /\ delta(balance.result) =
              CountKey(trace_file.root, "Call") - CountKey(trace_file.root, "Return")
        /\ is_balanced(balance.result) <=> Balanced(trace_file.root)

\* C19 witness: a sequence was summarized that has as many Return events as
\* Call events but a Return before its Call.
C19_Witness ==
    /\ balance.op = "summarize"
    /\ NoneHasBoth(trace_file.root)
    /\ balance.result.call_count = balance.result.return_count
    /\ balance.result.call_count > 0
    /\ ~is_balanced(balance.result)

\* the trace file holds a JSON array of objects none of which has both keys
WellFormed(file) ==
    /\ file.kind = "array"
    /\ \A i \in 1..Len(file.root) : IsObject(file.root[i])
    /\ NoneHasBoth(file.root)

\* C20: check_trace_balance exits with 0 exactly when the trace is balanced,
\* with 1 exactly when it is well-formed but unbalanced, reporting "Missing n
\* return event(s)" iff the calls exceed the returns by n and "Unexpected n
\* extra return event(s)" iff the returns exceed the calls by n, and with 2
\* exactly when the trace cannot be loaded or is malformed.
C20_CheckTraceBalanceExitStatus ==
    balance.op = "main" =>
        /\ balance.rc = 0 <=> (WellFormed(trace_file) /\ Balanced(trace_file.root))
        /\ balance.rc = 1 <=> (WellFormed(trace_file) /\ ~Balanced(trace_file.root))
        /\ balance.rc = 2 <=> ~WellFormed(trace_file)
        /\ \A n \in 1..(MaxEvents + 1) :
              /\ <<"Missing", n>> \in balance.out <=>
                    /\ balance.rc = 1
                    /\ CountKey(trace_file.root, "Call")
                          - CountKey(trace_file.root, "Return") = n
              /\ <<"Unexpected", n>> \in balance.out <=>
                    /\ balance.rc = 1
                    /\ CountKey(trace_file.root, "Return")
                          - CountKey(trace_file.root, "Call") = n

----------------------------------------------------------------------------
(* The lifecycle of the session, checked under SpecSession                 *)

\* the lifecycle state between API calls; Starting and Stopping are the
\* states inside start() and stop()
Lifecycle == IF tracing THEN "Active" ELSE "Idle"

\* C21: the session becomes Active only by a start() that succeeds, and
\* a start() succeeds only from Idle; it leaves Active only by a stop(), and
\* a stop() on an Idle session changes nothing; while the session is Idle no
\* event is recorded; and a start() made while Idle, in particular after a
\* completed stop(), is never refused because of the earlier session: it
\* succeeds with a new active handle unless its own arguments are invalid
\* (ValueError) or the backend cannot open the trace (RecorderError).
C21_SessionLifecycle ==
    [][/\ (Lifecycle = "Idle" /\ Lifecycle' = "Active") =>
             ApiStep("start") /\ api'.raised = "none"
       /\ (ApiStep("start") /\ api'.raised = "none") =>
             /\ Lifecycle = "Idle" /\ Lifecycle' = "Active"
             /\ Len(sessions') = Len(sessions) + 1
             /\ active_session' = Last(sessions')
       /\ (ApiStep("start") /\ Lifecycle = "Idle") =>
             api'.raised \in {"none", "ValueError", "RecorderError"}
       /\ (Lifecycle = "Active" /\ Lifecycle' = "Idle") => ApiStep("stop")
       /\ (ApiStep("stop") /\ Lifecycle = "Active") =>
             Lifecycle' = "Idle" /\ active_session' = NoHandle
       /\ (ApiStep("stop") /\ Lifecycle = "Idle") =>
             UNCHANGED <<active_session, sessions, backendVars>>
       /\ (Lifecycle = "Idle" /\ Lifecycle' = "Idle") =>
             UNCHANGED <<bstream, bmeta, durable, frames>>
       /\ (Lifecycle = "Idle") <=> (active_session = NoHandle)
      ]_vars

\* C21 witness: a second session is active, started right after the stop()
\* that ended the first.
C21_Witness ==
    /\ api.op = "start" /\ api.raised = "none" /\ api.prev = "stop"
    /\ Len(sessions) = 2
    /\ active_session = sessions[2]
    /\ tracing

----------------------------------------------------------------------------
(* Locals snapshots of trace.py, checked under SpecTracer                  *)

\* the encoding of a runtime value that the format asks for, without type
\* ids; seen holds the heap objects that are being encoded
RECURSIVE Expected(_, _)
Expected(val, seen) ==
    CASE val.k = "ref" ->
           IF val.id \in seen THEN [kind |-> "Raw", r |-> "<cycle>"]
           ELSE Expected(Heap[val.id], seen \cup {val.id})
      [] val.k = "bool"  -> [kind |-> "Bool", b |-> val.b]
      [] val.k = "int"   -> [kind |-> "Int", i |-> val.i]
      [] val.k = "float" -> [kind |-> "Float", f |-> val.f]
      [] val.k = "str"   -> [kind |-> "String", text |-> val.text]
      [] val.k = "none"  -> [kind |-> "None"]
      [] val.k = "list"  ->
           [kind |-> "Sequence",
            elements |-> [i \in 1..Len(val.elems) |-> Expected(val.elems[i], seen)]]
      [] val.k = "tuple" ->
           [kind |-> "Tuple",
            elements |-> [i \in 1..Len(val.elems) |-> Expected(val.elems[i], seen)]]
      [] val.k \in {"obj", "module"} ->
           [kind |-> "Struct",
            field_values |-> [i \in 1..Len(val.attrs) |->
                                 Expected(SortedByKey(val.attrs)[i][2], seen)]]
      [] val.k = "func"   -> [kind |-> "Struct", field_values |-> <<>>]
      [] val.k = "badstr" -> [kind |-> "Raw", r |-> "<error>"]
      [] OTHER            -> [kind |-> "Raw", r |-> StrOf(val)]

\* a recorded encoding without its type ids
RECURSIVE Strip(_)
Strip(enc) ==
    CASE enc.kind \in {"Sequence", "Tuple"} ->
           [kind |-> enc.kind,
            elements |-> [i \in 1..Len(enc.elements) |-> Strip(enc.elements[i])]]
      [] enc.kind = "Struct" ->
           [kind |-> "Struct",
            field_values |-> [i \in 1..Len(enc.field_values) |->
                                 Strip(enc.field_values[i])]]
      [] enc.kind = "Bool"   -> [kind |-> "Bool", b |-> enc.b]
      [] enc.kind = "Int"    -> [kind |-> "Int", i |-> enc.i]
      [] enc.kind = "Float"  -> [kind |-> "Float", f |-> enc.f]
      [] enc.kind = "String" -> [kind |-> "String", text |-> enc.text]
      [] enc.kind = "Raw"    -> [kind |-> "Raw", r |-> enc.r]
      [] OTHER               -> [kind |-> enc.kind]

Shows(enc, val) == Strip(enc) = Expected(val, {})

IsDunder(name) == StartsWith(name, <<"_", "_">>)

\* the bindings a locals snapshot leaves out: dunder names and imported modules
Filtered(binding) == IsDunder(binding[1]) \/ binding[2].k = "module"

\* the positions in the events of the last callback that hold a Value of the
\* binding, after the callback's Step
ValuesAfterStep(binding) ==
    {j \in 1..Len(Since(last.n)) :
        /\ Since(last.n)[j].tag = "Value"
        /\ \E i \in 1..(j - 1) : Since(last.n)[i].tag = "Step"
        /\ binding[1] \in DOMAIN var_map
        /\ Since(last.n)[j].variable_id = var_map[binding[1]]
        /\ Shows(Since(last.n)[j].value, binding[2])}

ModuleNames == {NameN}

\* C23: no VariableName is defined for a name that starts with a double
\* underscore or that is bound to an imported module, and no Value event
\* carries such a name or the encoding of a module.
C23_DundersAndModulesExcluded ==
    \A i \in 1..Len(events) :
        /\ events[i].tag = "VariableName" =>
              ~IsDunder(events[i].name) /\ events[i].name \notin ModuleNames
        /\ events[i].tag = "Value" =>
              /\ \A name \in DOMAIN var_map :
                    var_map[name] = events[i].variable_id =>
                        ~IsDunder(name) /\ name \notin ModuleNames
              /\ "module" \in DOMAIN types =>
                    events[i].value.type_id # types["module"]

----------------------------------------------------------------------------
(* Encoding of values by trace.py, checked under SpecTracer                *)

\* the arguments of the Call that the last callback recorded, as the frame
\* binds them
ShownArgs ==
    \A i \in 1..Len(last.locals) :
        \E j \in 1..Len(Last(events).args) :
            /\ Last(events).args[j].variable_id = var_map[last.locals[i][1]]
            /\ Shows(Last(events).args[j].value, last.locals[i][2])

\* C25: encoding a value never ends in a RecursionError, and the Call
\* recorded for a frame whose argument holds itself carries the argument
\* with the revisited object encoded as one Raw("<cycle>").
C25_CyclicValuesEncoded ==
    /\ last.raised # "RecursionError"
    /\ (/\ last.op = "call"
        /\ last.traced
        /\ \E i \in 1..Len(last.locals) : last.locals[i][2].k = "ref")
          => (Last(events).tag = "Call" /\ ShownArgs)

\* C26: no exception raised by the string conversion of a value leaves a
\* callback, and a callback that recorded a Step for a frame with such a
\* value recorded the Raw placeholder of the value.
C26_EncodingFaultRecovered ==
    /\ last.raised # "ValueError"
    /\ \A i \in 1..Len(last.locals) :
          (last.locals[i][2].k = "badstr" /\ NumTag(Since(last.n), "Step") > 0) =>
              Cardinality(ValuesAfterStep(last.locals[i])) = 1

----------------------------------------------------------------------------
(* Emissions of one callback of trace.py, checked under SpecThreads        *)

\* the events appended to Tracer.events since the last callback began
SinceCallback == SubSeq(Appended, last.n + 1, Len(Appended))

\* C24: the events that one callback emits are contiguous in Tracer.events:
\* no I/O Event, which only a stdout write emits, lies between two of them.
C24_CallbackEmissionsContiguous ==
    last.op \in {"call", "line", "return"} =>
        ~ \E i, j, k \in 1..Len(SinceCallback) :
              /\ i < j /\ j < k
              /\ SinceCallback[i].tag # "Event"
              /\ SinceCallback[j].tag = "Event"
              /\ SinceCallback[k].tag # "Event"

----------------------------------------------------------------------------
(* Properties of the ledger prototype's proxy and mirror, checked under    *)
(* SpecLedger and SpecMirror                                               *)

\* 0, 1, ..., n-1
CountFrom0(n) == [i \in 1..n |-> i - 1]

SeqsOf(s) == [i \in 1..Len(s) |-> s[i].seq]

\* C27: every interleaving of ProxyStdout.write calls gives one order: the
\* proxy events are recorded in seq order 0, 1, 2, ..., the ledger holds its
\* entries in increasing seq, the writes' bytes enter the pipe in the same
\* order, and a write's bytes enter the pipe only after its entry was pushed
\* and its event recorded.
C27_ProxyWritesOrdered ==
    /\ SeqsOf(proxy_events) = CountFrom0(next_seq)
    /\ \A i, j \in 1..Len(entries) : i < j => entries[i].seq < entries[j].seq
    /\ piped = CountFrom0(Len(proxy_events) - Len(writer))
    /\ \A i \in 1..Len(piped) : piped[i] < next_seq
    /\ writer # <<>> =>
          /\ writer[1].seq = next_seq - 1
          /\ Last(proxy_events) = [thread |-> writer[1].thread, seq |-> writer[1].seq,
                                   bytes |-> writer[1].data]

\* C27 witness: two writes by different threads have reached the pipe and a
\* third write has pushed its entry and not yet written.
C27_Witness ==
    /\ Len(piped) = 2
    /\ writer # <<>>
    /\ proxy_events[1].thread # proxy_events[2].thread
    /\ proxy_events[3].thread = proxy_events[1].thread

\* the bytes the ledger still expects, over all entries in order
RECURSIVE RemainingOf(_)
RemainingOf(ents) ==
    IF ents = <<>> THEN <<>> ELSE remaining(Head(ents)) \o RemainingOf(Tail(ents))

\* the proxy bytes not yet read: those in the pipe and those of the write
\* that is between its push and its os.write
Unread == pipe \o (IF writer = <<>> THEN <<>> ELSE writer[1].data)

\* C28: with proxy writes only, however the byte stream is cut into chunks:
\* every leftover is empty, the ledger's entries from their saved offsets
\* onwards are exactly the bytes not yet read (a partly matched entry goes on
\* at its offset), and once everything is read no pending byte is left.
C28_ProxyOnlyChunks ==
    native_payload = <<>> =>
        /\ mirror_payload = <<>>
        /\ RemainingOf(entries) = Unread
        /\ \A i \in 2..Len(entries) : entries[i].offset = 0
        /\ (pipe = <<>> /\ writer = <<>>) => pending_bytes(entries) = 0

\* C28 witness: proxy writes only; the chunks read so far covered the first
\* entry and half of the second one.
C28_Witness ==
    /\ native_payload = <<>>
    /\ Len(piped) = 2
    /\ mirror.total_bytes = 3
    /\ Len(entries) = 1
    /\ Head(entries).offset = 1

\* the bytes that have entered the pipe
RECURSIVE PipedBytes(_)
PipedBytes(n) == IF n = 0 THEN 0 ELSE Len(proxy_events[n].bytes) + PipedBytes(n - 1)
Written == Len(native_payload) + PipedBytes(Len(piped))

\* C29: a mirror that ended without an error ended at end-of-file: the
\* write end is closed, the pipe is empty and every byte written went
\* through subtract_from_chunk (total_bytes counts them); and once the write
\* end is closed the mirror eventually signals done, error or not.
C29_MirrorEndsAtEof ==
    /\ [](mirror.done /\ ~mirror.raised =>
            closed /\ pipe = <<>> /\ mirror.total_bytes = Written)
    /\ [](mirror.raised => mirror.done)
    /\ (closed ~> mirror.done)

\* C29 witness: proxy and native bytes were written, the write end was
\* closed, and the mirror signalled done without an error.
C29_Witness ==
    /\ mirror.done /\ ~mirror.raised
    /\ piped # <<>> /\ native_payload # <<>>
    /\ mirror.total_bytes >= 3

----------------------------------------------------------------------------
(* The finally clause of the recorder's command line, checked under SpecCli *)

\* start() returned a session to main
StartSucceeded == sessions # <<>>

\* C30: after start() succeeded main leaves, however the script ended and
\* whether flush() returned or raised, only after flush() and then stop()
\* were each called once (start, flush, stop are the three API calls made),
\* and when main has ended no session is active.
C30_FlushThenStopOnce ==
    /\ (cli.pc = "flushed") => (api.op = "flush" /\ api.prev = "start" /\ ncalls = 2)
    /\ (Ended /\ StartSucceeded) =>
          /\ api.op = "stop" /\ api.raised = "none" /\ api.prev = "flush"
          /\ "stop_tracing" \in api.backend
          /\ ncalls = 3
    /\ Ended => (~tracing /\ active_session = NoHandle)

\* C30 witness: the script raised, flush() raised too, stop() was called and
\* the exception has left main.
C30_Witness ==
    /\ cli.pc = "raised"
    /\ cli.flush_raised
    /\ cli.outcome.kind = "raise"
    /\ api.op = "stop"
    /\ ~tracing

----------------------------------------------------------------------------
(* The exit status of the recorder's command line, checked under SpecCli    *)

\* the status the interpreter exits with for an uncaught SystemExit: the
\* code if it is an int, 0 if it is None, and 1 (after printing it) otherwise
InterpreterStatus(o) == IF o.is_int THEN o.code ELSE IF o.is_none THEN 0 ELSE 1

\* C31: when the script ended by raising SystemExit and main returned, main
\* returned the status the interpreter itself would exit with for that
\* SystemExit: the int code, and 0 for sys.exit() and sys.exit(None).
C31_ExitCodePreserved ==
    (cli.pc = "returned" /\ cli.ran /\ cli.outcome.kind = "exit") =>
        cli.result = InterpreterStatus(cli.outcome)

\* main has ended: it returned, an exception left it, or the parser exited
MainEnded == cli.pc \in {"returned", "raised", "exited"}

\* C40: on every path by which main ends (the usage error, start() failing,
\* the script finishing, SystemExit, another exception, flush() failing),
\* sys.argv is again the list main found.
C40_ArgvRestored == MainEnded => cli.argv = OldArgv

----------------------------------------------------------------------------
(* first_negative_index, checked under SpecBalance                         *)

\* the 0-based indices i such that the first i+1 events hold more Return
\* events than Call events
Underflows(evs) ==
    {i \in 0..(Len(evs) - 1) :
        CountKey(SubSeq(evs, 1, i + 1), "Return") > CountKey(SubSeq(evs, 1, i + 1), "Call")}

\* C32: first_negative_index of summarize_trace_balance is the smallest
\* 0-based index at which a prefix holds more Return than Call events, and
\* None exactly when there is no such prefix: a later underflow does not
\* overwrite it.
C32_FirstNegativeIndex ==
    (balance.op = "summarize" /\ NoneHasBoth(trace_file.root)) =>
        /\ balance.result.first_negative_index = NoCode <=> Underflows(trace_file.root) = {}
        /\ Underflows(trace_file.root) # {} =>
              /\ balance.result.first_negative_index \in Underflows(trace_file.root)
              /\ \A i \in Underflows(trace_file.root) :
                    balance.result.first_negative_index <= i

\* C32 witness: a sequence was summarized whose first underflow is at index
\* 2 and which underflows again after it.
C32_Witness ==
    /\ balance.op = "summarize"
    /\ NoneHasBoth(trace_file.root)
    /\ balance.result.first_negative_index = 2
    /\ Cardinality(Underflows(trace_file.root)) >= 2

----------------------------------------------------------------------------
(* The methods of a TraceSession handle, checked under SpecSession          *)

\* the step is a call of a method of a handle that is not the active session
StaleHandleCall(ops) ==
    /\ ncalls' = ncalls + 1
    /\ api'.op \in ops
    /\ api'.by \notin {0, active_session.id}

\* C33: flush() of a handle flushes that handle's session only: called on a
\* handle that is not the active session (its session was stopped; another
\* one may have been started since) it changes nothing in the backend.
C33_FlushActsOnOwnSession ==
    [][StaleHandleCall({"flush"}) => UNCHANGED backendVars]_vars

\* C37: stop() of a handle that is not the active session changes neither
\* the backend nor the recorded active handle, so a session started later
\* stays active; stop() of the active handle stops the session.
C37_StaleStopLeavesSession ==
    [][/\ StaleHandleCall({"stop", "TraceSession.stop"}) =>
              UNCHANGED <<active_session, sessions, backendVars>>
       /\ (ncalls' = ncalls + 1 /\ api'.op = "stop" /\ api'.by # 0) =>
              /\ api'.by = active_session.id /\ tracing
              /\ ~tracing' /\ active_session' = NoHandle]_vars

\* C37 witness: stop() was called on the handle of the first session, which
\* had been stopped, while the second session was active and had recorded
\* events; the second session is still active.
C37_Witness ==
    /\ api.op = "TraceSession.stop" /\ api.by = 1
    /\ Len(sessions) = 2
    /\ active_session = sessions[2]
    /\ tracing /\ bstream # <<>>

----------------------------------------------------------------------------
(* Two threads in start() at once, checked under SpecRace                   *)

StartersAt(pcs) == {t \in StartThreads : starters[t].pc \in pcs}

\* the threads whose call of the backend's start_tracing succeeded
BackendStarted == StartersAt({"started", "returned"})

\* C34: of two threads that call start() while no session is active, with
\* their steps interleaved in any way, at most one gets a TraceSession and
\* the backend is started at most once; when both calls have ended and both
\* had valid arguments, exactly one returned, the other raised, and the
\* handle recorded as active is the one that call returned.
C34_ConcurrentStartsExclusive ==
    /\ Cardinality(BackendStarted) <= 1
    /\ Len(sessions) <= 1
    /\ \A t \in StartersAt({"returned"}) :
          /\ tracing
          /\ active_session = sessions[starters[t].id]
          /\ active_session.path = starters[t].args.path
    /\ (StartersAt({"returned", "raised"}) = StartThreads
           /\ \A t \in StartThreads : starters[t].raised # "ValueError")
        => /\ Cardinality(StartersAt({"returned"})) = 1
           /\ Cardinality(StartersAt({"raised"})) = 1

\* C34 witness: both threads passed the Python guard before either started
\* the backend; one has returned its session and the other has raised from
\* the backend's call.
C34_Witness ==
    \E t, u \in StartThreads :
        /\ starters[t].pc = "returned"
        /\ starters[u].pc = "raised"
        /\ starters[u].raised = "RecorderError"

----------------------------------------------------------------------------
(* Accounting and order of the ledger, checked under SpecLedger             *)

\* the byte strings of matched pairs, concatenated
RECURSIVE MatchedBytes(_)
MatchedBytes(matched) ==
    IF matched = <<>> THEN <<>> ELSE Head(matched)[2] \o MatchedBytes(Tail(matched))

\* the step is a call of subtract_from_chunk by the mirror, on a chunk of
\* Len(pipe) - Len(pipe') bytes
MirrorRead == mirror'.total_bytes > mirror.total_bytes
ThisCall == subtract_from_chunk(entries, SubSeq(pipe, 1, Len(pipe) - Len(pipe')))

\* C35: each call of subtract_from_chunk accounts for every byte of its chunk
\* once: leftover and matched bytes together are as long as the chunk, the
\* matched bytes are as many as the ledger lost in the call, and the
\* mirror's matched_bytes plus the leftovers it reported is its total_bytes.
C35_ChunkBytesAccounted ==
    /\ [][MirrorRead =>
            /\ Len(ThisCall.leftover) + matched_len(ThisCall.matched) = Len(pipe) - Len(pipe')
            /\ pending_bytes(entries) - pending_bytes(entries') = matched_len(ThisCall.matched)
            /\ mirror'.matched_bytes - mirror.matched_bytes = matched_len(ThisCall.matched)]_vars
    /\ [](mirror.matched_bytes + Len(mirror_payload) = mirror.total_bytes)

\* C35 witness: the mirror has read chunks with matched bytes and with
\* leftover bytes, and a partly matched entry is pending.
C35_Witness ==
    /\ mirror.matched_bytes >= 3
    /\ Len(mirror_payload) >= 1
    /\ entries # <<>> /\ Head(entries).offset > 0

\* the seq numbers of matched pairs
SeqsMatched(matched) == [i \in 1..Len(matched) |-> matched[i][1]]

\* C36: the ledger is consumed first-in first-out: what a call matches is
\* the front of the bytes the ledger holds, taken from the head entry's
\* offset on; an entry leaves the ledger only spent (the bytes that left are
\* the bytes matched); no entry in the ledger is spent or has an offset
\* beyond its data, and only the head entry has been started; and the seq
\* numbers matched over all calls never decrease.
C36_LedgerConsumedFifo ==
    /\ [][MirrorRead =>
            RemainingOf(entries) = MatchedBytes(ThisCall.matched) \o RemainingOf(entries')]_vars
    /\ [](\A i \in 1..Len(entries) :
              /\ entries[i].offset < Len(entries[i].data)
              /\ i > 1 => entries[i].offset = 0)
    /\ [](\A i, j \in 1..Len(mirror.matched) :
              i < j => mirror.matched[i][1] <= mirror.matched[j][1])

\* C36 witness: the first entry was matched in two calls (a part, then the
\* rest) and the second entry is partly matched.
C36_Witness ==
    /\ Len(mirror.matched) >= 3
    /\ SubSeq(SeqsMatched(mirror.matched), 1, 3) = <<0, 0, 1>>
    /\ entries # <<>> /\ Head(entries).seq = 1 /\ Head(entries).offset = 1

----------------------------------------------------------------------------
(* start() raising, checked under SpecSession                               *)

\* the last API call was a start() that raised
StartRaised == api.op = "start" /\ api.raised # "none"

\* C38 as stated: after start() raised, for whatever reason, no session is
\* active.
C38_FailedStartLeavesNoSession ==
    StartRaised => (~tracing /\ active_session = NoHandle)

\* C38: a start() that raises starts nothing and stops nothing: the handle
\* recorded as active, the handles returned so far and the backend's session
\* are as before the call (a session that was active stays active, and none
\* is active if none was); and a path or format error is raised before the
\* policy is configured and before start_tracing is called.
C38_FailedStartChangesNothing ==
    [][(ncalls' = ncalls + 1 /\ api'.op = "start" /\ api'.raised # "none") =>
          /\ UNCHANGED <<active_session, sessions, tracing, gate, scope, bstream,
                         bmeta, durable, frames, parked, entered, ncallbacks, poisoned>>
          /\ (api'.raised = "RuntimeError") <=> tracing
          /\ (api'.raised = "ValueError") =>
                (UNCHANGED policy /\ "start_tracing" \notin api'.backend)]_vars

\* C38 witness: start() raised ValueError while no session was active, after
\* an earlier session had been started and stopped.
C38_Witness ==
    /\ StartRaised /\ api.raised = "ValueError"
    /\ Len(sessions) = 1
    /\ ~tracing /\ active_session = NoHandle

----------------------------------------------------------------------------
(* The recorded handle and the backend, checked under SpecPolicy            *)

====
